---- MODULE Spec2Model ----
(***************************************************************************)
(* Query-support layer of the medical-practice SQL assistant               *)
(* (src/sqlAgent.py): the Query Preprocessor, the SQL rewriter, the        *)
(* Schema Cache and the Result Cache, the SchemaSnapshot Builder, the      *)
(* Insight Annotator, the Prompt Composer, and get_table_schema under      *)
(* concurrent callers.                                                     *)
(*                                                                         *)
(* Text is a sequence of one-character strings, and every regular          *)
(* expression of the source is an operator over such sequences.            *)
(***************************************************************************)
EXTENDS Integers, Sequences, FiniteSets, TLC

VARIABLES
    raw,        \* preprocess_user_query: the raw question
    norm,       \* preprocess_user_query(raw)
    norm2,      \* preprocess_user_query(norm)
    preStage,   \* "input" | "once" | "twice" ("idle" outside SpecPre)
    block,                  \* the SQL of the agent's fenced block
    extracted_sql,          \* sql_agent line 319
    improved_sql,           \* sql_agent lines 321, 322
    duplicate_message,      \* sql_agent line 321
    string_match_message,   \* sql_agent line 322
    raised,                 \* an exception left the rewriter
    payload,                \* what sql_agent returns: "answer" | "error"
    rwStage,    \* "agent" | "extracted" | "deduplicated" | "matched" | "done"
    resultCache,    \* lru_cache of cached_sql_results, least recently used first
    lastRun,        \* the last call of cached_sql_results that returned
    prevRun,        \* the call that had returned last when lastRun began
    rsPc,           \* rsPc[t]: where thread t is in cached_sql_results
    rsSql,          \* rsSql[t]: the SQL text thread t called with
    rsRows,         \* rsRows[t]: what the body returned in thread t
    rsSeen,         \* rsSeen[t]: lastRun when the call of thread t began
    sqlTool,        \* sql_tool is set (line 82) or None (line 79)
    now,            \* time.time(), in seconds
    storeVersion,   \* how many times the store has changed
    changedAt,      \* changedAt[v]: when the store changed to version v
    storeFails,     \* the queries on the store raise
    failures,       \* how many times the store has begun to fail
    schemaCache,    \* lru_cache of get_table_schema, least recently used first
    requests,       \* how many requests have begun
    tables,         \* get_table_schema line 97: the tables of the store
    faults,         \* faults[i]: the query on tables[i] that fails, or "none"
    schema_info,    \* get_table_schema: the dict being built, in insertion order
    buildPos,       \* the position of the two for loops in tables
    buildStage,     \* "listed" | "returned" | "aborted" ("idle" outside SpecBuild)
    schema_result,  \* what get_table_schema's body returned
    content,        \* add_data_quality_insights: the response text
    annotated,      \* add_data_quality_insights(content)
    annStage,       \* "input" | "annotated" ("idle" outside SpecAnnotate)
    snapshot,       \* sql_agent line 235: schema_info, tables in insertion order
    question,       \* sql_agent line 232: query, the normalized question
    combined_query, \* sql_agent lines 293..302: the prompt
    promptStage,    \* "input" | "composed" ("idle" outside SpecPrompt)
    thPc,           \* thPc[t]: where thread t is in sql_agent or display_schema
    thCaller,       \* thCaller[t]: "sql_agent" | "display_schema"
    thKey,          \* thKey[t]: the cache_key thread t called with
    thVal,          \* thVal[t]: the dict thread t builds, then what its call returned;
                    \* until the next call of t, what its last call returned
    thPos,          \* thPos[t]: how many queries on the tables the build of thread t has run
    thBuilt,        \* thBuilt[t]: the call of thread t ran get_table_schema's body
    response        \* response[t]: what sql_agent returned to thread t

preVars == <<raw, norm, norm2, preStage>>
rwVars == <<block, extracted_sql, improved_sql, duplicate_message,
            string_match_message, raised, payload, rwStage>>
resVars == <<resultCache, lastRun, prevRun, rsPc, rsSql, rsRows, rsSeen>>
schemaVars == <<now, storeVersion, changedAt, storeFails, failures, schemaCache, requests>>
buildVars == <<tables, faults, schema_info, buildPos, buildStage, schema_result>>
annVars == <<content, annotated, annStage>>
promptVars == <<snapshot, question, combined_query, promptStage>>
threadVars == <<thPc, thCaller, thKey, thVal, thPos, thBuilt, response>>
auxVars == <<buildVars, annVars, promptVars, threadVars>>
vars == <<preVars, rwVars, resVars, schemaVars, sqlTool, auxVars>>

(***************************************************************************)
(* Characters                                                              *)
(***************************************************************************)
\* A character is a one-element string.  A printable ASCII character stands
\* for itself, "\t", "\n", "\r" and "\f" for the control characters of
\* those names, and any other character is written U+ and its code point in
\* four hexadecimal digits ("U+00E9" is e with acute accent).  The alphabet
\* of the model is U+0000..U+00FF, the whitespace of Unicode, the four
\* letters re.IGNORECASE takes for ASCII letters (U+0130, U+0131, U+017F,
\* U+212A), and what str.upper() and str.lower() make of those.
LowerCase == <<"a","b","c","d","e","f","g","h","i","j","k","l","m",
               "n","o","p","q","r","s","t","u","v","w","x","y","z">>
UpperCase == <<"A","B","C","D","E","F","G","H","I","J","K","L","M",
               "N","O","P","Q","R","S","T","U","V","W","X","Y","Z">>
Digits == {"0","1","2","3","4","5","6","7","8","9"}

Range(f) == {f[i] : i \in DOMAIN f}

RECURSIVE Concat(_)
Concat(ss) == IF ss = << >> THEN << >> ELSE Head(ss) \o Concat(Tail(ss))

\* str.strip() and the regex class \s: the whitespace of Unicode
\* (str.isspace).
SpaceChars ==
    { "\t", "\n", "U+000B", "\f", "\r", "U+001C", "U+001D", "U+001E",
      "U+001F", " ", "U+0085", "U+00A0", "U+1680", "U+2000", "U+2001", "U+2002",
      "U+2003", "U+2004", "U+2005", "U+2006", "U+2007", "U+2008", "U+2009", "U+200A",
      "U+2028", "U+2029", "U+202F", "U+205F", "U+3000" }
IsSpace(c) == c \in SpaceChars

\* The characters of the alphabet beyond ASCII that the regex class \w takes:
\* letters and numbers (str.isalnum).
NonAsciiWordChars ==
    { "U+00AA", "U+00B2", "U+00B3", "U+00B5", "U+00B9", "U+00BA", "U+00BC", "U+00BD",
      "U+00BE", "U+00C0", "U+00C1", "U+00C2", "U+00C3", "U+00C4", "U+00C5", "U+00C6",
      "U+00C7", "U+00C8", "U+00C9", "U+00CA", "U+00CB", "U+00CC", "U+00CD", "U+00CE",
      "U+00CF", "U+00D0", "U+00D1", "U+00D2", "U+00D3", "U+00D4", "U+00D5", "U+00D6",
      "U+00D8", "U+00D9", "U+00DA", "U+00DB", "U+00DC", "U+00DD", "U+00DE", "U+00DF",
      "U+00E0", "U+00E1", "U+00E2", "U+00E3", "U+00E4", "U+00E5", "U+00E6", "U+00E7",
      "U+00E8", "U+00E9", "U+00EA", "U+00EB", "U+00EC", "U+00ED", "U+00EE", "U+00EF",
      "U+00F0", "U+00F1", "U+00F2", "U+00F3", "U+00F4", "U+00F5", "U+00F6", "U+00F8",
      "U+00F9", "U+00FA", "U+00FB", "U+00FC", "U+00FD", "U+00FE", "U+00FF", "U+0130",
      "U+0131", "U+0178", "U+017F", "U+039C", "U+03BC", "U+212A" }

\* The regex class \w: letters, digits and the underscore.
WordChars ==
    Range(LowerCase) \cup Range(UpperCase) \cup Digits \cup {"_"}
        \cup NonAsciiWordChars
IsWord(c) == c \in WordChars

\* str.upper() on the characters beyond a..z that it changes; one character
\* can become two.
NonAsciiUpperOf ==
    "U+00B5" :> <<"U+039C">>
    @@ "U+00DF" :> <<"S", "S">>
    @@ "U+00E0" :> <<"U+00C0">>
    @@ "U+00E1" :> <<"U+00C1">>
    @@ "U+00E2" :> <<"U+00C2">>
    @@ "U+00E3" :> <<"U+00C3">>
    @@ "U+00E4" :> <<"U+00C4">>
    @@ "U+00E5" :> <<"U+00C5">>
    @@ "U+00E6" :> <<"U+00C6">>
    @@ "U+00E7" :> <<"U+00C7">>
    @@ "U+00E8" :> <<"U+00C8">>
    @@ "U+00E9" :> <<"U+00C9">>
    @@ "U+00EA" :> <<"U+00CA">>
    @@ "U+00EB" :> <<"U+00CB">>
    @@ "U+00EC" :> <<"U+00CC">>
    @@ "U+00ED" :> <<"U+00CD">>
    @@ "U+00EE" :> <<"U+00CE">>
    @@ "U+00EF" :> <<"U+00CF">>
    @@ "U+00F0" :> <<"U+00D0">>
    @@ "U+00F1" :> <<"U+00D1">>
    @@ "U+00F2" :> <<"U+00D2">>
    @@ "U+00F3" :> <<"U+00D3">>
    @@ "U+00F4" :> <<"U+00D4">>
    @@ "U+00F5" :> <<"U+00D5">>
    @@ "U+00F6" :> <<"U+00D6">>
    @@ "U+00F8" :> <<"U+00D8">>
    @@ "U+00F9" :> <<"U+00D9">>
    @@ "U+00FA" :> <<"U+00DA">>
    @@ "U+00FB" :> <<"U+00DB">>
    @@ "U+00FC" :> <<"U+00DC">>
    @@ "U+00FD" :> <<"U+00DD">>
    @@ "U+00FE" :> <<"U+00DE">>
    @@ "U+00FF" :> <<"U+0178">>
    @@ "U+0131" :> <<"I">>
    @@ "U+017F" :> <<"S">>
    @@ "U+03BC" :> <<"U+039C">>

\* str.upper() on one character: the text it becomes.
UpperOf ==
    [c \in Range(LowerCase) |->
        <<UpperCase[CHOOSE i \in DOMAIN LowerCase : LowerCase[i] = c]>>]
    @@ NonAsciiUpperOf
Upper(c) == IF c \in DOMAIN UpperOf THEN UpperOf[c] ELSE <<c>>

\* str.upper()
UpperSeq(s) == Concat([i \in DOMAIN s |-> Upper(s[i])])

\* re.IGNORECASE on a pattern of ASCII letters: the upper-case ASCII letter a
\* character of the text is taken for.
IgnoreCaseOf ==
    [c \in Range(LowerCase) |->
        UpperCase[CHOOSE i \in DOMAIN LowerCase : LowerCase[i] = c]]
    @@ "U+0130" :> "I"
    @@ "U+0131" :> "I"
    @@ "U+017F" :> "S"
    @@ "U+212A" :> "K"
IgnoreCase(c) == IF c \in DOMAIN IgnoreCaseOf THEN IgnoreCaseOf[c] ELSE c

\* The literal text t occurs in s at position i.
MatchAt(s, i, t) ==
    /\ i >= 1
    /\ i + Len(t) - 1 <= Len(s)
    /\ \A k \in 1..Len(t) : s[i + k - 1] = t[k]

\* The same under re.IGNORECASE (t is given in upper-case ASCII letters).
MatchCI(s, i, t) ==
    /\ i >= 1
    /\ i + Len(t) - 1 <= Len(s)
    /\ \A k \in 1..Len(t) : IgnoreCase(s[i + k - 1]) = t[k]

\* The regex assertion \b between positions i-1 and i (i in 1..Len(s)+1).
WordBoundary(s, i) ==
    (i > 1 /\ i - 1 <= Len(s) /\ IsWord(s[i - 1])) # (i <= Len(s) /\ IsWord(s[i]))

\* The least index >= i of s that holds no whitespace, Len(s)+1 if none.
SkipSpace(s, i) ==
    IF \E j \in i..Len(s) : ~IsSpace(s[j])
    THEN CHOOSE j \in i..Len(s) :
            ~IsSpace(s[j]) /\ \A k \in i..(j - 1) : IsSpace(s[k])
    ELSE Len(s) + 1

\* The last index of the run of word characters that holds position i.
WordEnd(s, i) ==
    CHOOSE e \in i..Len(s) :
        /\ \A k \in i..e : IsWord(s[k])
        /\ (e = Len(s) \/ ~IsWord(s[e + 1]))

(***************************************************************************)
(* Query Preprocessor                                                      *)
(***************************************************************************)
\* query.strip()
Strip(s) ==
    IF \A i \in DOMAIN s : IsSpace(s[i])
    THEN << >>
    ELSE LET a == CHOOSE i \in DOMAIN s :
                    ~IsSpace(s[i]) /\ \A k \in 1..(i - 1) : IsSpace(s[k])
             b == CHOOSE i \in DOMAIN s :
                    ~IsSpace(s[i]) /\ \A k \in (i + 1)..Len(s) : IsSpace(s[k])
         IN  SubSeq(s, a, b)

\* re.sub(r'\s+', ' ', query)
RECURSIVE CollapseFrom(_, _)
CollapseFrom(s, i) ==
    IF i > Len(s) THEN << >>
    ELSE IF IsSpace(s[i]) THEN <<" ">> \o CollapseFrom(s, SkipSpace(s, i))
    ELSE <<s[i]>> \o CollapseFrom(s, i + 1)

CollapseWhitespace(s) == CollapseFrom(s, 1)

\* The end of the line that holds position i: the index of the next "\n",
\* Len(s)+1 if none (where the regex $ matches under re.MULTILINE).
LineEnd(s, i) ==
    IF \E j \in i..Len(s) : s[j] = "\n"
    THEN CHOOSE j \in i..Len(s) : s[j] = "\n" /\ \A k \in i..(j - 1) : s[k] # "\n"
    ELSE Len(s) + 1

\* re.sub(r'--.*$', '', query, flags=re.MULTILINE)
RECURSIVE StripLineFrom(_, _)
StripLineFrom(s, i) ==
    IF i > Len(s) THEN << >>
    ELSE IF MatchAt(s, i, <<"-", "-">>) THEN StripLineFrom(s, LineEnd(s, i + 2))
    ELSE <<s[i]>> \o StripLineFrom(s, i + 1)

StripLineComments(s) == StripLineFrom(s, 1)

\* re.sub(r'/\*.*?\*/', '', query, flags=re.DOTALL)
RECURSIVE StripBlockFrom(_, _)
StripBlockFrom(s, i) ==
    IF i > Len(s) THEN << >>
    ELSE IF /\ MatchAt(s, i, <<"/", "*">>)
            /\ \E k \in (i + 2)..Len(s) : MatchAt(s, k, <<"*", "/">>)
    THEN LET k == CHOOSE k \in (i + 2)..Len(s) :
                    /\ MatchAt(s, k, <<"*", "/">>)
                    /\ \A m \in (i + 2)..(k - 1) : ~MatchAt(s, m, <<"*", "/">>)
         IN  StripBlockFrom(s, k + 2)
    ELSE <<s[i]>> \o StripBlockFrom(s, i + 1)

StripBlockComments(s) == StripBlockFrom(s, 1)

\* preprocess_user_query: strip, collapse whitespace, strip line comments,
\* strip block comments, in the source's order.
preprocess_user_query(query) ==
    StripBlockComments(StripLineComments(CollapseWhitespace(Strip(query))))

(***************************************************************************)
(* Inputs of the preprocessor: every concatenation of at most MaxPreFrags  *)
(* fragments, and the commented two-line questions of the scenario's form. *)
(***************************************************************************)
MaxPreFrags == 5

PreFrags == { <<"a">>, <<" ">>, <<"\n">>, <<"-">>, <<"-", "-">>,
              <<"/", "*">>, <<"*", "/">> }


RECURSIVE SeqsUpTo(_, _)
SeqsUpTo(S, n) ==
    IF n = 0 THEN { << >> }
    ELSE LET shorter == SeqsUpTo(S, n - 1)
         IN  shorter \cup { Append(p, x) : p \in shorter, x \in S }

ScenarioQuestion ==
    <<"S","h","o","w"," ","r","e","v","e","n","u","e"," "," "," ","\n",
      "-","-"," ","c","o","m","m","e","n","t","\n",
      " ","t","h","i","s"," ","q","u","a","r","t","e","r">>

ScenarioNormalized ==
    <<"S","h","o","w"," ","r","e","v","e","n","u","e"," ",
      "t","h","i","s"," ","q","u","a","r","t","e","r">>

PlainTexts == { <<"a">>, <<"a", " ", "b">>, <<"b", "a">> }
CommentTexts == { << >>, <<" ", "c">>, <<"c", " ", "d">> }

\* A + newline + "-- c" + newline + B
CommentedQuestion(A, c, B) == A \o <<"\n", "-", "-">> \o c \o <<"\n">> \o B

\* Questions with whitespace and letters beyond ASCII.
UnicodeQuestions ==
    { <<"a","U+000B","U+000B","b">>,
      <<"U+00A0","a","U+2003"," ","b","U+0085">>,
      <<"c","a","f","U+00E9","U+001C","-","-","x","U+2028","y","\n","z">> }

PreInputs ==
    { Concat(p) : p \in SeqsUpTo(PreFrags, MaxPreFrags) }
    \cup UnicodeQuestions
    \cup { CommentedQuestion(A, c, B) : A \in PlainTexts, c \in CommentTexts, B \in PlainTexts }
    \cup { ScenarioQuestion }

NoRun == [sql |-> << >>, invoked |-> FALSE, failed |-> FALSE, rows |-> "none"]
NoSnapshot == [id |-> 0, empty |-> TRUE, version |-> 0, last |-> 0,
               zeroed |-> {}, unsampled |-> {}]

ResIdle ==
    /\ resultCache = << >>
    /\ lastRun = NoRun
    /\ prevRun = NoRun
    /\ rsPc = << >>
    /\ rsSql = << >>
    /\ rsRows = << >>
    /\ rsSeen = << >>

SchemaIdle ==
    /\ now = 0
    /\ storeVersion = 0
    /\ changedAt = << >>
    /\ storeFails = FALSE
    /\ failures = 0
    /\ schemaCache = << >>
    /\ requests = 0

PreIdle ==
    /\ raw = << >>
    /\ norm = << >>
    /\ norm2 = << >>
    /\ preStage = "idle"

RwIdle ==
    /\ block = << >>
    /\ extracted_sql = << >>
    /\ improved_sql = << >>
    /\ duplicate_message = "None"
    /\ string_match_message = "None"
    /\ raised = FALSE
    /\ payload = "none"
    /\ rwStage = "idle"

BuildIdle ==
    /\ tables = << >>
    /\ faults = << >>
    /\ schema_info = << >>
    /\ buildPos = 0
    /\ buildStage = "idle"
    /\ schema_result = << >>

AnnIdle ==
    /\ content = << >>
    /\ annotated = << >>
    /\ annStage = "idle"

PromptIdle ==
    /\ snapshot = << >>
    /\ question = << >>
    /\ combined_query = << >>
    /\ promptStage = "idle"

ThreadIdle ==
    /\ thPc = << >>
    /\ thCaller = << >>
    /\ thKey = << >>
    /\ thVal = << >>
    /\ thPos = << >>
    /\ thBuilt = << >>
    /\ response = << >>

AuxIdle ==
    /\ BuildIdle
    /\ AnnIdle
    /\ PromptIdle
    /\ ThreadIdle

InitPre ==
    /\ raw \in PreInputs
    /\ norm = << >>
    /\ norm2 = << >>
    /\ preStage = "input"
    /\ RwIdle
    /\ ResIdle
    /\ SchemaIdle
    /\ AuxIdle
    /\ sqlTool = TRUE

\* normalize(q): preprocess_user_query applied to the raw question.
Normalize ==
    /\ preStage = "input"
    /\ norm' = preprocess_user_query(raw)
    /\ preStage' = "once"
    /\ UNCHANGED <<raw, norm2, rwVars, resVars, schemaVars, sqlTool, auxVars>>

\* The preprocessor applied to its own output.
Renormalize ==
    /\ preStage = "once"
    /\ norm2' = preprocess_user_query(norm)
    /\ preStage' = "twice"
    /\ UNCHANGED <<raw, norm, rwVars, resVars, schemaVars, sqlTool, auxVars>>

NextPre == Normalize \/ Renormalize

SpecPre == InitPre /\ [][NextPre]_vars

(***************************************************************************)
(* Query Preprocessor: claims                                              *)
(***************************************************************************)
\* The text t occurs somewhere in s.
Contains(s, t) == \E i \in 1..Len(s) : MatchAt(s, i, t)

\* C4: the preprocessor is idempotent: normalizing a normalized question
\* changes nothing.
C4_Idempotent == preStage = "twice" => norm2 = norm

\* C5: a line comment is stripped only to the end of its own line: a question
\* A, newline, "-- c", newline, B normalizes to A and B joined by one space,
\* and the scenario's question to "Show revenue this quarter".
C5_CommentedLineKept ==
    preStage \in {"once", "twice"} =>
        /\ raw = ScenarioQuestion => norm = ScenarioNormalized
        /\ \A A \in PlainTexts, c \in CommentTexts, B \in PlainTexts :
              raw = CommentedQuestion(A, c, B) => norm = A \o <<" ">> \o B

\* C6: the normalized question holds no comment syntax ("--", "/*", "*/")
\* and no run of two spaces.
C6_NoCommentSyntax ==
    preStage \in {"once", "twice"} =>
        /\ ~Contains(norm, <<"-", "-">>)
        /\ ~Contains(norm, <<"/", "*">>)
        /\ ~Contains(norm, <<"*", "/">>)
        /\ ~Contains(norm, <<" ", " ">>)

(***************************************************************************)
(* SQL rewriter                                                            *)
(***************************************************************************)
NoMessage == "None"
DistinctMessage == "Added DISTINCT to prevent duplicate rows from joins"

KwSelect == <<"S","E","L","E","C","T">>
KwDistinct == <<"D","I","S","T","I","N","C","T">>
KwJoin == <<"J","O","I","N">>
KwGroup == <<"G","R","O","U","P">>
KwBy == <<"B","Y">>
KwLike == <<"L","I","K","E">>
Quotes == {"'", "\""}

\* re.search(r'\bjoin\b', query_text, re.IGNORECASE)
HasJoins(s) ==
    \E i \in 1..Len(s) :
        WordBoundary(s, i) /\ MatchCI(s, i, KwJoin) /\ WordBoundary(s, i + 4)

\* re.search(r'\bgroup\s+by\b', query_text, re.IGNORECASE)
HasGroupBy(s) ==
    \E i \in 1..Len(s) :
        /\ WordBoundary(s, i)
        /\ MatchCI(s, i, KwGroup)
        /\ \E j \in (i + 6)..Len(s) :
              /\ \A k \in (i + 5)..(j - 1) : IsSpace(s[k])
              /\ MatchCI(s, j, KwBy)
              /\ WordBoundary(s, j + 2)

\* re.search(r'\bdistinct\b', query_text, re.IGNORECASE)
HasDistinct(s) ==
    \E i \in 1..Len(s) :
        WordBoundary(s, i) /\ MatchCI(s, i, KwDistinct) /\ WordBoundary(s, i + 8)

\* A match of r'(SELECT\s+)' under re.IGNORECASE starts at position i.
SelectAt(s, i) == MatchCI(s, i, KwSelect) /\ i + 6 <= Len(s) /\ IsSpace(s[i + 6])

\* re.sub(r'(SELECT\s+)', r'\1DISTINCT ', query_text, flags=re.IGNORECASE, count=1)
AddDistinct(s) ==
    IF \E i \in 1..Len(s) : SelectAt(s, i)
    THEN LET i == CHOOSE i \in 1..Len(s) :
                    SelectAt(s, i) /\ \A k \in 1..(i - 1) : ~SelectAt(s, k)
             j == SkipSpace(s, i + 6)
         IN  SubSeq(s, 1, j - 1) \o KwDistinct \o <<" ">> \o SubSeq(s, j, Len(s))
    ELSE s

\* The mutant of detect_and_handle_duplicates: the guard without its test
\* for GROUP BY and DISTINCT.
detect_and_handle_duplicates_unguarded(query_text) ==
    IF HasJoins(query_text)
    THEN [sql |-> AddDistinct(query_text), msg |-> DistinctMessage]
    ELSE [sql |-> query_text, msg |-> NoMessage]

\* detect_and_handle_duplicates: the pair it returns.
detect_and_handle_duplicates(query_text) ==
    IF HasJoins(query_text) /\ ~HasGroupBy(query_text) /\ ~HasDistinct(query_text)
    THEN [sql |-> AddDistinct(query_text), msg |-> DistinctMessage]
    ELSE [sql |-> query_text, msg |-> NoMessage]

\* r'\w+\s*=\s*[\'"]' matched from position i: the position of the quote, 0
\* when there is no match from i.
EqualityQuote(s, i) ==
    IF i > Len(s) \/ ~IsWord(s[i]) THEN 0
    ELSE LET p == SkipSpace(s, WordEnd(s, i) + 1)
         IN  IF p > Len(s) \/ s[p] # "=" THEN 0
             ELSE LET r == SkipSpace(s, p + 1)
                  IN  IF r <= Len(s) /\ s[r] \in Quotes THEN r ELSE 0

\* r'(.*?)(\2)' after the quote at position r: the position of the closing
\* quote, the next quote of the same kind on the same line; 0 if none.
ClosingQuote(s, r) ==
    IF \E c \in (r + 1)..Len(s) :
          s[c] = s[r] /\ \A k \in (r + 1)..(c - 1) : s[k] # s[r] /\ s[k] # "\n"
    THEN CHOOSE c \in (r + 1)..Len(s) :
          s[c] = s[r] /\ \A k \in (r + 1)..(c - 1) : s[k] # s[r] /\ s[k] # "\n"
    ELSE 0

\* re.sub(r'(\w+)\s*=\s*([\'"])(.*?)(\2)', r'LOWER(\1) = LOWER(\2\3\4)', query_text)
RECURSIVE LowerFrom(_, _)
LowerFrom(s, i) ==
    IF i > Len(s) THEN << >>
    ELSE LET r == EqualityQuote(s, i)
             c == IF r = 0 THEN 0 ELSE ClosingQuote(s, r)
         IN  IF c = 0 THEN <<s[i]>> \o LowerFrom(s, i + 1)
             ELSE <<"L","O","W","E","R","(">> \o SubSeq(s, i, WordEnd(s, i))
                  \o <<")"," ","="," ","L","O","W","E","R","(">>
                  \o SubSeq(s, r, c) \o <<")">> \o LowerFrom(s, c + 1)

CaseInsensitiveEquality(s) == LowerFrom(s, 1)

\* re.search(r'\w+\s*=\s*[\'"]', modified_query)
HasQuotedEquality(s) == \E i \in 1..Len(s) : EqualityQuote(s, i) # 0

\* "LIKE" not in modified_query.upper()
HasLike(s) ==
    LET upper == UpperSeq(s)
    IN  \E i \in 1..Len(upper) : MatchAt(upper, i, KwLike)

\* improve_string_matching: the pair it returns, or the exception it raises.
\* The pattern of the second re.sub (line 193) closes a group it never
\* opened: compiling it raises re.error, so the call at lines 192-196 never
\* returns and line 197 is never reached.
improve_string_matching(query_text) ==
    LET modified_query == CaseInsensitiveEquality(query_text)
    IN  IF ~HasLike(modified_query) /\ HasQuotedEquality(modified_query)
        THEN [sql |-> << >>, msg |-> NoMessage, raised |-> TRUE]
        ELSE [sql |-> modified_query, msg |-> NoMessage, raised |-> FALSE]

(***************************************************************************)
(* The rewriter as sql_agent runs it on the agent's fenced SQL block       *)
(* (lines 317-360). Inputs: every concatenation of at most MaxSqlPhrases   *)
(* phrases, well-formed or not.                                            *)
(***************************************************************************)
MaxSqlPhrases == 3

SqlPhrases == {
    <<"S","E","L","E","C","T"," ">>,
    <<"S","E","L","E","C","T","*">>,
    <<"D","I","S","T","I","N","C","T"," ","a"," ">>,
    <<"j","o","i","n","e","d"," ">>,
    <<"F","R","O","M"," ","t"," ","j","o","i","n"," ","u","\n">>,
    <<"G","R","O","U","P"," "," ","B","Y"," ","a"," ">>,
    <<"W","H","E","R","E"," ","a"," ","="," ","'","x","'"," ">>,
    <<"A","N","D"," ","b","=","\"","y"," ">>,
    <<"A","N","D"," ","c"," ","L","I","K","E"," ","'","z","'"," ">> }

\* SQL with whitespace and letters beyond ASCII.
UnicodeSql ==
    { <<"S","E","L","E","C","T"," ","a"," ","F","R","O","M"," ","t"," ","U+00E9","j","o","i","n"," ","u">>,
      <<"U+017F","E","L","E","C","T","U+000B","a"," ","F","R","O","M"," ","t","U+00A0","J","O","I","N"," ","u">>,
      <<"S","E","L","E","C","T"," ","a"," ","F","R","O","M"," ","t"," ","J","O","I","N"," ","u"," ","W","H","E","R","E"," ","s","t","r","a","U+00DF","e"," ","="," ","'","x","'">>,
      <<"S","E","L","E","C","T"," ","d","U+0131","s","t","U+0130","n","c","t"," ","a"," ","F","R","O","M"," ","t"," ","J","O","I","N"," ","u"," ","W","H","E","R","E"," ","l","U+0131","k","e"," ",">"," ","1">> }

SqlInputs ==
    { Concat(p) : p \in SeqsUpTo(SqlPhrases, MaxSqlPhrases) } \cup UnicodeSql

InitRw ==
    /\ PreIdle
    /\ ResIdle
    /\ SchemaIdle
    /\ AuxIdle
    /\ sqlTool = TRUE
    /\ block \in SqlInputs
    /\ extracted_sql = << >>
    /\ improved_sql = << >>
    /\ duplicate_message = NoMessage
    /\ string_match_message = NoMessage
    /\ raised = FALSE
    /\ payload = "none"
    /\ rwStage = "agent"

\* sql_agent lines 317-319: extracted_sql = sql_query_match.group(1).strip()
ExtractSql ==
    /\ rwStage = "agent"
    /\ extracted_sql' = Strip(block)
    /\ rwStage' = "extracted"
    /\ UNCHANGED <<resVars, schemaVars, sqlTool, auxVars, preVars, block, improved_sql, duplicate_message,
                   string_match_message, raised, payload>>

\* sql_agent line 321
DetectDuplicates ==
    /\ rwStage = "extracted"
    /\ LET r == detect_and_handle_duplicates(extracted_sql)
       IN  /\ improved_sql' = r.sql
           /\ duplicate_message' = r.msg
    /\ rwStage' = "deduplicated"
    /\ UNCHANGED <<resVars, schemaVars, sqlTool, auxVars, preVars, block, extracted_sql, string_match_message, raised, payload>>

\* sql_agent line 322; an exception leaves both targets unassigned.
ImproveMatching ==
    /\ rwStage = "deduplicated"
    /\ LET r == improve_string_matching(improved_sql)
       IN  IF r.raised
           THEN /\ raised' = TRUE
                /\ UNCHANGED <<improved_sql, string_match_message>>
           ELSE /\ improved_sql' = r.sql
                /\ string_match_message' = r.msg
                /\ UNCHANGED raised
    /\ rwStage' = "matched"
    /\ UNCHANGED <<resVars, schemaVars, sqlTool, auxVars, preVars, block, extracted_sql, duplicate_message, payload>>

\* sql_agent lines 339-345 (the answer) and 346-360 (except Exception: the
\* error payload).
Respond ==
    /\ rwStage = "matched"
    /\ payload' = IF raised THEN "error" ELSE "answer"
    /\ rwStage' = "done"
    /\ UNCHANGED <<resVars, schemaVars, sqlTool, auxVars, preVars, block, extracted_sql, improved_sql, duplicate_message,
                   string_match_message, raised>>

NextRw == ExtractSql \/ DetectDuplicates \/ ImproveMatching \/ Respond

SpecRw == InitRw /\ [][NextRw]_vars

(***************************************************************************)
(* SQL rewriter: claims                                                    *)
(***************************************************************************)
\* The position of the first SELECT keyword of s, 0 if it has none.
FirstSelect(s) ==
    LET at(i) == WordBoundary(s, i) /\ MatchCI(s, i, KwSelect) /\ WordBoundary(s, i + 6)
    IN  IF \E i \in 1..Len(s) : at(i)
        THEN CHOOSE i \in 1..Len(s) : at(i) /\ \A k \in 1..(i - 1) : ~at(k)
        ELSE 0

\* How many times the keyword DISTINCT occurs in s.
DistinctCount(s) ==
    Cardinality({ i \in 1..Len(s) :
        WordBoundary(s, i) /\ MatchCI(s, i, KwDistinct) /\ WordBoundary(s, i + 8) })

\* r is s with the keyword DISTINCT put right after the SELECT at position i.
DistinctPutAfter(s, i, r) ==
    \E j \in (i + 6)..SkipSpace(s, i + 6), pre \in {<< >>, <<" ">>}, post \in {<< >>, <<" ">>} :
        r = SubSeq(s, 1, j - 1) \o pre \o KwDistinct \o post \o SubSeq(s, j, Len(s))

\* C7: for SQL with a JOIN and neither GROUP BY nor DISTINCT, the duplicate
\* guard returns the SQL with exactly one DISTINCT, right after its first
\* SELECT keyword, and the rest unchanged.
C7_DistinctAfterFirstSelect ==
    ( /\ rwStage = "deduplicated"
      /\ HasJoins(extracted_sql)
      /\ ~HasGroupBy(extracted_sql)
      /\ ~HasDistinct(extracted_sql)
      /\ FirstSelect(extracted_sql) > 0 )
    => /\ DistinctCount(improved_sql) = 1
       /\ DistinctPutAfter(extracted_sql, FirstSelect(extracted_sql), improved_sql)

\* C8 as claimed: for SQL that already holds DISTINCT or GROUP BY, the full
\* rewrite (duplicate guard, then string matching) returns the SQL as it was.
\* (Texts on which the rewriter raises are C9's; they are left out here.)
C8_FullRewriteIdentity ==
    ( /\ rwStage \in {"matched", "done"}
      /\ HasDistinct(extracted_sql) \/ HasGroupBy(extracted_sql)
      /\ ~raised )
    => improved_sql = extracted_sql

\* C8 as amended: for SQL that already holds DISTINCT or GROUP BY, the
\* duplicate guard returns the SQL as it was, with no description; and the full
\* rewrite returns it as it was, with no description, whenever it holds no
\* equality against a quote.
C8_GuardIdentity ==
    (HasDistinct(extracted_sql) \/ HasGroupBy(extracted_sql)) =>
        /\ rwStage = "deduplicated" =>
              improved_sql = extracted_sql /\ duplicate_message = NoMessage
        /\ (rwStage \in {"matched", "done"} /\ ~HasQuotedEquality(extracted_sql)) =>
              /\ ~raised
              /\ improved_sql = extracted_sql
              /\ duplicate_message = NoMessage
              /\ string_match_message = NoMessage

\* C8's case: SQL with a JOIN and a DISTINCT and no quoted equality went
\* through both rewrites.
C8_Witness ==
    /\ rwStage = "done"
    /\ HasJoins(extracted_sql)
    /\ HasDistinct(extracted_sql)
    /\ \E i \in 1..Len(extracted_sql) : SelectAt(extracted_sql, i)
    /\ ~HasQuotedEquality(extracted_sql)
    /\ improved_sql = extracted_sql

\* C9: the rewriter never raises, whatever the text, and so never turns the
\* agent's answer into an error payload.
C9_RewriterNeverRaises ==
    /\ rwStage \in {"matched", "done"} => ~raised
    /\ rwStage = "done" => payload = "answer"

\* C10: each rewrite returns a description exactly when the SQL it returns
\* differs from the SQL it was given.
C10_DescriptionIffChanged ==
    /\ rwStage = "deduplicated" =>
          ((duplicate_message # NoMessage) <=> (improved_sql # extracted_sql))
    /\ (rwStage \in {"matched", "done"} /\ ~raised) =>
          ((string_match_message # NoMessage)
              <=> (improved_sql # detect_and_handle_duplicates(extracted_sql).sql))

(***************************************************************************)
(* functools.lru_cache: a cache is a sequence of entries [key, val], the   *)
(* least recently used first.                                              *)
(***************************************************************************)
LruHit(cache, k) == \E i \in DOMAIN cache : cache[i].key = k

LruIndex(cache, k) == CHOOSE i \in DOMAIN cache : cache[i].key = k

LruGet(cache, k) == cache[LruIndex(cache, k)].val

\* A hit makes the entry the most recently used one.
LruTouch(cache, k) ==
    LET i == LruIndex(cache, k)
    IN  SubSeq(cache, 1, i - 1) \o SubSeq(cache, i + 1, Len(cache)) \o <<cache[i]>>

\* A miss stores the result, evicting the least recently used entry of a
\* full cache.
LruPut(cache, k, v, maxsize) ==
    IF Len(cache) >= maxsize
    THEN Append(Tail(cache), [key |-> k, val |-> v])
    ELSE Append(cache, [key |-> k, val |-> v])

(***************************************************************************)
(* Result Cache                                                            *)
(***************************************************************************)
ResultCacheSize == 100

\* The SQL texts callers run.
Query1 == <<"S","E","L","E","C","T"," ","1">>
Query2 == <<"S","E","L","E","C","T"," ","2">>
Query3 == <<"S","E","L","E","C","T"," "," ","1">>
Queries == { Query1, Query2, Query3 }

\* generate_query_hash: hashlib.md5(query.encode()).hexdigest(), tabulated
\* for the texts of Queries.
generate_query_hash(query) ==
    CASE query = Query1 -> "b1698e52a0f16203489454196a0c6307"
      [] query = Query2 -> "fc1c7a0bdce312b20bc3780dd6d41aaa"
      [] query = Query3 -> "f54a1992a163e448576d4460884924d1"

\* The body of cached_sql_results (lines 220-224): the rows, or None when
\* sql_tool.run_sql raises (sql_tool unset, or the statement fails).
RunSql(succeeds) == IF sqlTool /\ succeeds THEN "rows" ELSE "None"

MaxThreads == 2

\* The threads that serve requests, one per session.
Threads == 1..MaxThreads

\* cached_sql_results(generate_query_hash(q), q) in thread t, up to the
\* lookup of lru_cache's wrapper: a hit returns the cached value; a miss
\* goes on to call the function, with no lock held.
GetOrRun(t, q) ==
    /\ rsPc[t] = "idle"
    /\ LET k == <<generate_query_hash(q), q>>
       IN  IF LruHit(resultCache, k)
           THEN /\ resultCache' = LruTouch(resultCache, k)
                /\ lastRun' = [sql |-> q, invoked |-> FALSE, failed |-> FALSE,
                               rows |-> LruGet(resultCache, k)]
                /\ prevRun' = lastRun
                /\ UNCHANGED <<rsPc, rsSql, rsRows, rsSeen>>
           ELSE /\ rsPc' = [rsPc EXCEPT ![t] = "running"]
                /\ rsSql' = [rsSql EXCEPT ![t] = q]
                /\ rsSeen' = [rsSeen EXCEPT ![t] = lastRun]
                /\ UNCHANGED <<resultCache, lastRun, prevRun, rsRows>>
    /\ UNCHANGED <<preVars, rwVars, schemaVars, sqlTool, auxVars>>

\* The body of cached_sql_results in thread t: the executor answers.
RunExecutor(t, succeeds) ==
    /\ rsPc[t] = "running"
    /\ rsRows' = [rsRows EXCEPT ![t] = RunSql(succeeds)]
    /\ rsPc' = [rsPc EXCEPT ![t] = "ran"]
    /\ UNCHANGED <<resultCache, lastRun, prevRun, rsSql, rsSeen>>
    /\ UNCHANGED <<preVars, rwVars, schemaVars, sqlTool, auxVars>>

\* Back in the wrapper: the value is stored unless another thread stored the
\* key while the body ran; the call returns its own value either way.
StoreRows(t) ==
    /\ rsPc[t] = "ran"
    /\ LET k == <<generate_query_hash(rsSql[t]), rsSql[t]>>
       IN  resultCache' = IF LruHit(resultCache, k)
                          THEN resultCache
                          ELSE LruPut(resultCache, k, rsRows[t], ResultCacheSize)
    /\ lastRun' = [sql |-> rsSql[t], invoked |-> TRUE,
                   failed |-> rsRows[t] = "None", rows |-> rsRows[t]]
    /\ prevRun' = rsSeen[t]
    /\ rsPc' = [rsPc EXCEPT ![t] = "idle"]
    /\ UNCHANGED <<rsSql, rsRows, rsSeen>>
    /\ UNCHANGED <<preVars, rwVars, schemaVars, sqlTool, auxVars>>

InitResults ==
    /\ PreIdle
    /\ RwIdle
    /\ SchemaIdle
    /\ AuxIdle
    /\ sqlTool \in BOOLEAN
    /\ resultCache = << >>
    /\ lastRun = NoRun
    /\ prevRun = NoRun
    /\ rsPc = [t \in Threads |-> "idle"]
    /\ rsSql = [t \in Threads |-> << >>]
    /\ rsRows = [t \in Threads |-> "none"]
    /\ rsSeen = [t \in Threads |-> NoRun]

NextResults ==
    \/ \E t \in Threads, q \in Queries : GetOrRun(t, q)
    \/ \E t \in Threads, succeeds \in BOOLEAN : RunExecutor(t, succeeds)
    \/ \E t \in Threads : StoreRows(t)

SpecResults == InitResults /\ [][NextResults]_vars

\* C3: a failure of the executor is never cached: no entry of the Result
\* Cache holds a failure, and of two consecutive requests for the same SQL
\* text the first of which failed, the second invokes the executor again.
C3_FailuresNotCached ==
    /\ \A i \in DOMAIN resultCache : resultCache[i].val # "None"
    /\ (prevRun # NoRun /\ prevRun.failed /\ lastRun.sql = prevRun.sql) => lastRun.invoked

(***************************************************************************)
(* SchemaSnapshot Builder: the body of get_table_schema, one store query   *)
(* at a time, on the store init_database makes                             *)
(***************************************************************************)
MaxFaults == 1
SampleLimit == 3

\* Python's None: a value no text equals.
None == <<"None">>

\* SELECT name FROM sqlite_master WHERE type='table': the tables of
\* database.py in creation order; sqlite_sequence is the table SQLite makes
\* at the first AUTOINCREMENT key.
TableNames ==
    << <<"b","a","n","k","_","s","t","a","t","e","m","e","n","t","s">>,
       <<"s","q","l","i","t","e","_","s","e","q","u","e","n","c","e">>,
       <<"p","r","o","f","i","t","_","l","o","s","s","_","r","e","p","o","r","t","s">>,
       <<"p","u","r","c","h","a","s","e","_","o","r","d","e","r","s">>,
       <<"p","u","r","c","h","a","s","e","_","o","r","d","e","r","_","i","t","e","m","s">>,
       <<"s","u","p","p","l","y","_","c","a","t","a","l","o","g">>,
       <<"e","q","u","i","t","y","_","o","w","n","e","r","s","h","i","p">>,
       <<"p","a","y","o","r","_","c","o","n","t","r","a","c","t","s">>,
       <<"c","o","n","t","r","a","c","t","_","p","r","o","c","e","d","u","r","e","s">> >>

\* PRAGMA table_info of each table.
PragmaTableInfo ==
    <<
        \* bank_statements
        << [name |-> <<"i","d">>, type |-> <<"I","N","T","E","G","E","R">>,
            notnull |-> 0, dflt_value |-> None, pk |-> 1],
           [name |-> <<"d","a","t","e">>, type |-> <<"D","A","T","E">>,
            notnull |-> 0, dflt_value |-> None, pk |-> 0],
           [name |-> <<"d","e","s","c","r","i","p","t","i","o","n">>, type |-> <<"V","A","R","C","H","A","R","(","2","5","5",")">>,
            notnull |-> 0, dflt_value |-> None, pk |-> 0],
           [name |-> <<"w","i","t","h","d","r","a","w","a","l">>, type |-> <<"R","E","A","L">>,
            notnull |-> 0, dflt_value |-> None, pk |-> 0],
           [name |-> <<"d","e","p","o","s","i","t">>, type |-> <<"R","E","A","L">>,
            notnull |-> 0, dflt_value |-> None, pk |-> 0],
           [name |-> <<"b","a","l","a","n","c","e">>, type |-> <<"R","E","A","L">>,
            notnull |-> 0, dflt_value |-> None, pk |-> 0] >>,
        \* sqlite_sequence
        << [name |-> <<"n","a","m","e">>, type |-> <<>>,
            notnull |-> 0, dflt_value |-> None, pk |-> 0],
           [name |-> <<"s","e","q">>, type |-> <<>>,
            notnull |-> 0, dflt_value |-> None, pk |-> 0] >>,
        \* profit_loss_reports
        << [name |-> <<"i","d">>, type |-> <<"I","N","T","E","G","E","R">>,
            notnull |-> 0, dflt_value |-> None, pk |-> 1],
           [name |-> <<"p","e","r","i","o","d","_","s","t","a","r","t">>, type |-> <<"D","A","T","E">>,
            notnull |-> 0, dflt_value |-> None, pk |-> 0],
           [name |-> <<"p","e","r","i","o","d","_","e","n","d">>, type |-> <<"D","A","T","E">>,
            notnull |-> 0, dflt_value |-> None, pk |-> 0],
           [name |-> <<"t","o","t","a","l","_","r","e","v","e","n","u","e">>, type |-> <<"R","E","A","L">>,
            notnull |-> 0, dflt_value |-> None, pk |-> 0],
           [name |-> <<"t","o","t","a","l","_","e","x","p","e","n","s","e">>, type |-> <<"R","E","A","L">>,
            notnull |-> 0, dflt_value |-> None, pk |-> 0],
           [name |-> <<"n","e","t","_","p","r","o","f","i","t">>, type |-> <<"R","E","A","L">>,
            notnull |-> 0, dflt_value |-> None, pk |-> 0] >>,
        \* purchase_orders
        << [name |-> <<"i","d">>, type |-> <<"I","N","T","E","G","E","R">>,
            notnull |-> 0, dflt_value |-> None, pk |-> 1],
           [name |-> <<"p","o","_","n","u","m","b","e","r">>, type |-> <<"V","A","R","C","H","A","R","(","5","0",")">>,
            notnull |-> 0, dflt_value |-> None, pk |-> 0],
           [name |-> <<"d","a","t","e">>, type |-> <<"D","A","T","E">>,
            notnull |-> 0, dflt_value |-> None, pk |-> 0],
           [name |-> <<"v","e","n","d","o","r">>, type |-> <<"V","A","R","C","H","A","R","(","1","0","0",")">>,
            notnull |-> 0, dflt_value |-> None, pk |-> 0],
           [name |-> <<"t","o","t","a","l","_","a","m","o","u","n","t">>, type |-> <<"R","E","A","L">>,
            notnull |-> 0, dflt_value |-> None, pk |-> 0] >>,
        \* purchase_order_items
        << [name |-> <<"i","d">>, type |-> <<"I","N","T","E","G","E","R">>,
            notnull |-> 0, dflt_value |-> None, pk |-> 1],
           [name |-> <<"p","u","r","c","h","a","s","e","_","o","r","d","e","r","_","i","d">>, type |-> <<"I","N","T","E","G","E","R">>,
            notnull |-> 0, dflt_value |-> None, pk |-> 0],
           [name |-> <<"i","t","e","m","_","d","e","s","c","r","i","p","t","i","o","n">>, type |-> <<"V","A","R","C","H","A","R","(","2","5","5",")">>,
            notnull |-> 0, dflt_value |-> None, pk |-> 0],
           [name |-> <<"q","u","a","n","t","i","t","y">>, type |-> <<"I","N","T","E","G","E","R">>,
            notnull |-> 0, dflt_value |-> None, pk |-> 0],
           [name |-> <<"u","n","i","t","_","p","r","i","c","e">>, type |-> <<"R","E","A","L">>,
            notnull |-> 0, dflt_value |-> None, pk |-> 0],
           [name |-> <<"t","o","t","a","l","_","p","r","i","c","e">>, type |-> <<"R","E","A","L">>,
            notnull |-> 0, dflt_value |-> None, pk |-> 0] >>,
        \* supply_catalog
        << [name |-> <<"i","d">>, type |-> <<"I","N","T","E","G","E","R">>,
            notnull |-> 0, dflt_value |-> None, pk |-> 1],
           [name |-> <<"i","t","e","m","_","n","a","m","e">>, type |-> <<"V","A","R","C","H","A","R","(","2","5","5",")">>,
            notnull |-> 0, dflt_value |-> None, pk |-> 0],
           [name |-> <<"s","k","u">>, type |-> <<"V","A","R","C","H","A","R","(","5","0",")">>,
            notnull |-> 0, dflt_value |-> None, pk |-> 0],
           [name |-> <<"u","n","i","t","_","p","r","i","c","e">>, type |-> <<"R","E","A","L">>,
            notnull |-> 0, dflt_value |-> None, pk |-> 0],
           [name |-> <<"v","e","n","d","o","r">>, type |-> <<"V","A","R","C","H","A","R","(","1","0","0",")">>,
            notnull |-> 0, dflt_value |-> None, pk |-> 0],
           [name |-> <<"n","o","t","e","s">>, type |-> <<"T","E","X","T">>,
            notnull |-> 0, dflt_value |-> None, pk |-> 0] >>,
        \* equity_ownership
        << [name |-> <<"i","d">>, type |-> <<"I","N","T","E","G","E","R">>,
            notnull |-> 0, dflt_value |-> None, pk |-> 1],
           [name |-> <<"n","a","m","e">>, type |-> <<"V","A","R","C","H","A","R","(","1","0","0",")">>,
            notnull |-> 0, dflt_value |-> None, pk |-> 0],
           [name |-> <<"r","o","l","e">>, type |-> <<"V","A","R","C","H","A","R","(","1","0","0",")">>,
            notnull |-> 0, dflt_value |-> None, pk |-> 0],
           [name |-> <<"o","w","n","e","r","s","h","i","p","_","p","e","r","c","e","n","t">>, type |-> <<"R","E","A","L">>,
            notnull |-> 0, dflt_value |-> None, pk |-> 0],
           [name |-> <<"t","y","p","e">>, type |-> <<"V","A","R","C","H","A","R","(","5","0",")">>,
            notnull |-> 0, dflt_value |-> None, pk |-> 0] >>,
        \* payor_contracts
        << [name |-> <<"i","d">>, type |-> <<"I","N","T","E","G","E","R">>,
            notnull |-> 0, dflt_value |-> None, pk |-> 1],
           [name |-> <<"p","a","y","o","r","_","n","a","m","e">>, type |-> <<"V","A","R","C","H","A","R","(","1","0","0",")">>,
            notnull |-> 0, dflt_value |-> None, pk |-> 0],
           [name |-> <<"e","f","f","e","c","t","i","v","e","_","f","r","o","m">>, type |-> <<"D","A","T","E">>,
            notnull |-> 0, dflt_value |-> None, pk |-> 0],
           [name |-> <<"e","f","f","e","c","t","i","v","e","_","t","o">>, type |-> <<"D","A","T","E">>,
            notnull |-> 0, dflt_value |-> None, pk |-> 0],
           [name |-> <<"p","a","y","m","e","n","t","_","t","e","r","m","s">>, type |-> <<"T","E","X","T">>,
            notnull |-> 0, dflt_value |-> None, pk |-> 0] >>,
        \* contract_procedures
        << [name |-> <<"i","d">>, type |-> <<"I","N","T","E","G","E","R">>,
            notnull |-> 0, dflt_value |-> None, pk |-> 1],
           [name |-> <<"p","a","y","o","r","_","c","o","n","t","r","a","c","t","_","i","d">>, type |-> <<"I","N","T","E","G","E","R">>,
            notnull |-> 0, dflt_value |-> None, pk |-> 0],
           [name |-> <<"c","p","t","_","c","o","d","e">>, type |-> <<"V","A","R","C","H","A","R","(","1","0",")">>,
            notnull |-> 0, dflt_value |-> None, pk |-> 0],
           [name |-> <<"p","r","o","c","e","d","u","r","e","_","n","a","m","e">>, type |-> <<"V","A","R","C","H","A","R","(","2","5","5",")">>,
            notnull |-> 0, dflt_value |-> None, pk |-> 0],
           [name |-> <<"f","e","e","_","s","c","h","e","d","u","l","e","_","r","a","t","e">>, type |-> <<"R","E","A","L">>,
            notnull |-> 0, dflt_value |-> None, pk |-> 0],
           [name |-> <<"n","o","t","e","s">>, type |-> <<"T","E","X","T">>,
            notnull |-> 0, dflt_value |-> None, pk |-> 0] >>
    >>

\* PRAGMA foreign_key_list of each table: database.py declares no foreign
\* key.
PragmaForeignKeyList == [i \in DOMAIN TableNames |-> << >>]

\* The values of a row: None, an int, a float (its whole part and the digits
\* of its fraction) or a str.
NoneValue == [kind |-> "None", n |-> 0, text |-> << >>]
IntValue(n) == [kind |-> "int", n |-> n, text |-> << >>]
FloatValue(whole, frac) == [kind |-> "float", n |-> whole, text |-> frac]
StrValue(text) == [kind |-> "str", n |-> 0, text |-> text]

\* The rows database.py inserts, and the rows of sqlite_sequence they leave:
\* each row is the dict run_sql returns for it, its <<column, value>> pairs
\* in column order.
SeedRows ==
    <<
        \* bank_statements
        << << <<<<"i","d">>, IntValue(1)>>,
              <<<<"d","a","t","e">>, StrValue(<<"2","0","2","5","-","0","1","-","0","2">>)>>,
              <<<<"d","e","s","c","r","i","p","t","i","o","n">>, StrValue(<<"I","n","s","u","r","a","n","c","e"," ","R","e","i","m","b","u","r","s","e","m","e","n","t"," ","(","A","e","t","n","a",")">>)>>,
              <<<<"w","i","t","h","d","r","a","w","a","l">>, NoneValue>>,
              <<<<"d","e","p","o","s","i","t">>, FloatValue(145000, <<"0">>)>>,
              <<<<"b","a","l","a","n","c","e">>, FloatValue(145000, <<"0">>)>> >>,
           << <<<<"i","d">>, IntValue(2)>>,
              <<<<"d","a","t","e">>, StrValue(<<"2","0","2","5","-","0","1","-","0","5">>)>>,
              <<<<"d","e","s","c","r","i","p","t","i","o","n">>, StrValue(<<"V","e","n","d","o","r"," ","P","a","y","m","e","n","t"," ","-"," ","M","e","d","l","i","n","e">>)>>,
              <<<<"w","i","t","h","d","r","a","w","a","l">>, FloatValue(35820, <<"0">>)>>,
              <<<<"d","e","p","o","s","i","t">>, NoneValue>>,
              <<<<"b","a","l","a","n","c","e">>, FloatValue(109180, <<"0">>)>> >>,
           << <<<<"i","d">>, IntValue(3)>>,
              <<<<"d","a","t","e">>, StrValue(<<"2","0","2","5","-","0","1","-","1","0">>)>>,
              <<<<"d","e","s","c","r","i","p","t","i","o","n">>, StrValue(<<"P","a","y","r","o","l","l">>)>>,
              <<<<"w","i","t","h","d","r","a","w","a","l">>, FloatValue(72100, <<"0">>)>>,
              <<<<"d","e","p","o","s","i","t">>, NoneValue>>,
              <<<<"b","a","l","a","n","c","e">>, FloatValue(37080, <<"0">>)>> >>,
           << <<<<"i","d">>, IntValue(4)>>,
              <<<<"d","a","t","e">>, StrValue(<<"2","0","2","5","-","0","1","-","1","5">>)>>,
              <<<<"d","e","s","c","r","i","p","t","i","o","n">>, StrValue(<<"P","a","t","i","e","n","t"," ","P","a","y","m","e","n","t"," ","(","P","O","S",")">>)>>,
              <<<<"w","i","t","h","d","r","a","w","a","l">>, NoneValue>>,
              <<<<"d","e","p","o","s","i","t">>, FloatValue(8700, <<"0">>)>>,
              <<<<"b","a","l","a","n","c","e">>, FloatValue(45780, <<"0">>)>> >> >>,
        \* sqlite_sequence
        << << <<<<"n","a","m","e">>, StrValue(<<"b","a","n","k","_","s","t","a","t","e","m","e","n","t","s">>)>>,
              <<<<"s","e","q">>, IntValue(4)>> >>,
           << <<<<"n","a","m","e">>, StrValue(<<"p","r","o","f","i","t","_","l","o","s","s","_","r","e","p","o","r","t","s">>)>>,
              <<<<"s","e","q">>, IntValue(2)>> >>,
           << <<<<"n","a","m","e">>, StrValue(<<"p","u","r","c","h","a","s","e","_","o","r","d","e","r","s">>)>>,
              <<<<"s","e","q">>, IntValue(2)>> >>,
           << <<<<"n","a","m","e">>, StrValue(<<"p","u","r","c","h","a","s","e","_","o","r","d","e","r","_","i","t","e","m","s">>)>>,
              <<<<"s","e","q">>, IntValue(3)>> >>,
           << <<<<"n","a","m","e">>, StrValue(<<"s","u","p","p","l","y","_","c","a","t","a","l","o","g">>)>>,
              <<<<"s","e","q">>, IntValue(2)>> >>,
           << <<<<"n","a","m","e">>, StrValue(<<"e","q","u","i","t","y","_","o","w","n","e","r","s","h","i","p">>)>>,
              <<<<"s","e","q">>, IntValue(3)>> >>,
           << <<<<"n","a","m","e">>, StrValue(<<"p","a","y","o","r","_","c","o","n","t","r","a","c","t","s">>)>>,
              <<<<"s","e","q">>, IntValue(2)>> >>,
           << <<<<"n","a","m","e">>, StrValue(<<"c","o","n","t","r","a","c","t","_","p","r","o","c","e","d","u","r","e","s">>)>>,
              <<<<"s","e","q">>, IntValue(2)>> >> >>,
        \* profit_loss_reports
        << << <<<<"i","d">>, IntValue(1)>>,
              <<<<"p","e","r","i","o","d","_","s","t","a","r","t">>, StrValue(<<"2","0","2","4","-","1","0","-","0","1">>)>>,
              <<<<"p","e","r","i","o","d","_","e","n","d">>, StrValue(<<"2","0","2","4","-","1","2","-","3","1">>)>>,
              <<<<"t","o","t","a","l","_","r","e","v","e","n","u","e">>, FloatValue(474500, <<"0">>)>>,
              <<<<"t","o","t","a","l","_","e","x","p","e","n","s","e">>, FloatValue(362500, <<"0">>)>>,
              <<<<"n","e","t","_","p","r","o","f","i","t">>, FloatValue(112000, <<"0">>)>> >>,
           << <<<<"i","d">>, IntValue(2)>>,
              <<<<"p","e","r","i","o","d","_","s","t","a","r","t">>, StrValue(<<"2","0","2","4","-","0","7","-","0","1">>)>>,
              <<<<"p","e","r","i","o","d","_","e","n","d">>, StrValue(<<"2","0","2","4","-","0","9","-","3","0">>)>>,
              <<<<"t","o","t","a","l","_","r","e","v","e","n","u","e">>, FloatValue(500000, <<"0">>)>>,
              <<<<"t","o","t","a","l","_","e","x","p","e","n","s","e">>, FloatValue(380000, <<"0">>)>>,
              <<<<"n","e","t","_","p","r","o","f","i","t">>, FloatValue(120000, <<"0">>)>> >> >>,
        \* purchase_orders
        << << <<<<"i","d">>, IntValue(1)>>,
              <<<<"p","o","_","n","u","m","b","e","r">>, StrValue(<<"M","S","-","P","O","-","2","0","2","5","-","0","1","1">>)>>,
              <<<<"d","a","t","e">>, StrValue(<<"2","0","2","5","-","0","1","-","1","2">>)>>,
              <<<<"v","e","n","d","o","r">>, StrValue(<<"M","e","d","l","i","n","e"," ","I","n","d","u","s","t","r","i","e","s">>)>>,
              <<<<"t","o","t","a","l","_","a","m","o","u","n","t">>, FloatValue(18565, <<"0">>)>> >>,
           << <<<<"i","d">>, IntValue(2)>>,
              <<<<"p","o","_","n","u","m","b","e","r">>, StrValue(<<"M","S","-","P","O","-","2","0","2","5","-","0","1","2">>)>>,
              <<<<"d","a","t","e">>, StrValue(<<"2","0","2","5","-","0","1","-","1","5">>)>>,
              <<<<"v","e","n","d","o","r">>, StrValue(<<"S","u","r","g","i","c","a","l"," ","S","u","p","p","l","i","e","s"," ","C","o",".">>)>>,
              <<<<"t","o","t","a","l","_","a","m","o","u","n","t">>, FloatValue(12250, <<"0">>)>> >> >>,
        \* purchase_order_items
        << << <<<<"i","d">>, IntValue(1)>>,
              <<<<"p","u","r","c","h","a","s","e","_","o","r","d","e","r","_","i","d">>, IntValue(1)>>,
              <<<<"i","t","e","m","_","d","e","s","c","r","i","p","t","i","o","n">>, StrValue(<<"O","r","t","h","o"," ","I","m","p","l","a","n","t"," ","K","i","t">>)>>,
              <<<<"q","u","a","n","t","i","t","y">>, IntValue(5)>>,
              <<<<"u","n","i","t","_","p","r","i","c","e">>, FloatValue(2400, <<"0">>)>>,
              <<<<"t","o","t","a","l","_","p","r","i","c","e">>, FloatValue(12000, <<"0">>)>> >>,
           << <<<<"i","d">>, IntValue(2)>>,
              <<<<"p","u","r","c","h","a","s","e","_","o","r","d","e","r","_","i","d">>, IntValue(1)>>,
              <<<<"i","t","e","m","_","d","e","s","c","r","i","p","t","i","o","n">>, StrValue(<<"S","u","r","g","i","c","a","l"," ","D","r","a","p","e","s"," ","S","e","t">>)>>,
              <<<<"q","u","a","n","t","i","t","y">>, IntValue(100)>>,
              <<<<"u","n","i","t","_","p","r","i","c","e">>, FloatValue(22, <<"5">>)>>,
              <<<<"t","o","t","a","l","_","p","r","i","c","e">>, FloatValue(2250, <<"0">>)>> >>,
           << <<<<"i","d">>, IntValue(3)>>,
              <<<<"p","u","r","c","h","a","s","e","_","o","r","d","e","r","_","i","d">>, IntValue(2)>>,
              <<<<"i","t","e","m","_","d","e","s","c","r","i","p","t","i","o","n">>, StrValue(<<"H","i","p"," ","P","r","o","s","t","h","e","s","i","s">>)>>,
              <<<<"q","u","a","n","t","i","t","y">>, IntValue(10)>>,
              <<<<"u","n","i","t","_","p","r","i","c","e">>, FloatValue(800, <<"0">>)>>,
              <<<<"t","o","t","a","l","_","p","r","i","c","e">>, FloatValue(8000, <<"0">>)>> >> >>,
        \* supply_catalog
        << << <<<<"i","d">>, IntValue(1)>>,
              <<<<"i","t","e","m","_","n","a","m","e">>, StrValue(<<"O","r","t","h","o"," ","K","n","e","e"," ","I","m","p","l","a","n","t"," ","(","S","t","a","n","d","a","r","d",")">>)>>,
              <<<<"s","k","u">>, StrValue(<<"O","T","-","K","I","-","S","T","D">>)>>,
              <<<<"u","n","i","t","_","p","r","i","c","e">>, FloatValue(2450, <<"0">>)>>,
              <<<<"v","e","n","d","o","r">>, StrValue(<<"O","r","t","h","o","T","e","c","h"," ","S","u","p","p","l","i","e","s">>)>>,
              <<<<"n","o","t","e","s">>, StrValue(<<"F","D","A"," ","a","p","p","r","o","v","e","d">>)>> >>,
           << <<<<"i","d">>, IntValue(2)>>,
              <<<<"i","t","e","m","_","n","a","m","e">>, StrValue(<<"H","i","p"," ","R","e","p","l","a","c","e","m","e","n","t"," ","S","t","e","m">>)>>,
              <<<<"s","k","u">>, StrValue(<<"O","T","-","H","R","-","S","T","E","M">>)>>,
              <<<<"u","n","i","t","_","p","r","i","c","e">>, FloatValue(1980, <<"0">>)>>,
              <<<<"v","e","n","d","o","r">>, StrValue(<<"O","r","t","h","o","T","e","c","h"," ","S","u","p","p","l","i","e","s">>)>>,
              <<<<"n","o","t","e","s">>, StrValue(<<"T","i","t","a","n","i","u","m"," ","c","o","a","t","e","d">>)>> >> >>,
        \* equity_ownership
        << << <<<<"i","d">>, IntValue(1)>>,
              <<<<"n","a","m","e">>, StrValue(<<"D","r","."," ","A","l","i","c","i","a"," ","M","e","n","d","e","z">>)>>,
              <<<<"r","o","l","e">>, StrValue(<<"M","e","d","i","c","a","l"," ","D","i","r","e","c","t","o","r">>)>>,
              <<<<"o","w","n","e","r","s","h","i","p","_","p","e","r","c","e","n","t">>, FloatValue(35, <<"0">>)>>,
              <<<<"t","y","p","e">>, StrValue(<<"V","o","t","i","n","g"," ","E","q","u","i","t","y">>)>> >>,
           << <<<<"i","d">>, IntValue(2)>>,
              <<<<"n","a","m","e">>, StrValue(<<"D","r","."," ","R","a","j","i","v"," ","K","a","p","o","o","r">>)>>,
              <<<<"r","o","l","e">>, StrValue(<<"S","u","r","g","e","o","n">>)>>,
              <<<<"o","w","n","e","r","s","h","i","p","_","p","e","r","c","e","n","t">>, FloatValue(25, <<"0">>)>>,
              <<<<"t","y","p","e">>, StrValue(<<"V","o","t","i","n","g"," ","E","q","u","i","t","y">>)>> >>,
           << <<<<"i","d">>, IntValue(3)>>,
              <<<<"n","a","m","e">>, StrValue(<<"M","e","d","S","u","r","e"," ","H","o","l","d","i","n","g","s">>)>>,
              <<<<"r","o","l","e">>, StrValue(<<"I","n","v","e","s","t","m","e","n","t"," ","P","a","r","t","n","e","r">>)>>,
              <<<<"o","w","n","e","r","s","h","i","p","_","p","e","r","c","e","n","t">>, FloatValue(40, <<"0">>)>>,
              <<<<"t","y","p","e">>, StrValue(<<"P","r","e","f","e","r","r","e","d"," ","E","q","u","i","t","y">>)>> >> >>,
        \* payor_contracts
        << << <<<<"i","d">>, IntValue(1)>>,
              <<<<"p","a","y","o","r","_","n","a","m","e">>, StrValue(<<"A","e","t","n","a">>)>>,
              <<<<"e","f","f","e","c","t","i","v","e","_","f","r","o","m">>, StrValue(<<"2","0","2","3","-","0","1","-","0","1">>)>>,
              <<<<"e","f","f","e","c","t","i","v","e","_","t","o">>, StrValue(<<"2","0","2","5","-","1","2","-","3","1">>)>>,
              <<<<"p","a","y","m","e","n","t","_","t","e","r","m","s">>, StrValue(<<"C","l","a","i","m","s"," ","d","u","e"," ","i","n"," ","3","0"," ","d","a","y","s",","," ","4","5","-","d","a","y"," ","p","a","y","o","u","t">>)>> >>,
           << <<<<"i","d">>, IntValue(2)>>,
              <<<<"p","a","y","o","r","_","n","a","m","e">>, StrValue(<<"B","l","u","e"," ","C","r","o","s","s">>)>>,
              <<<<"e","f","f","e","c","t","i","v","e","_","f","r","o","m">>, StrValue(<<"2","0","2","3","-","0","6","-","0","1">>)>>,
              <<<<"e","f","f","e","c","t","i","v","e","_","t","o">>, StrValue(<<"2","0","2","5","-","0","6","-","0","1">>)>>,
              <<<<"p","a","y","m","e","n","t","_","t","e","r","m","s">>, StrValue(<<"M","o","n","t","h","l","y"," ","c","l","a","i","m","s",","," ","6","0","-","d","a","y"," ","p","a","y","o","u","t">>)>> >> >>,
        \* contract_procedures
        << << <<<<"i","d">>, IntValue(1)>>,
              <<<<"p","a","y","o","r","_","c","o","n","t","r","a","c","t","_","i","d">>, IntValue(1)>>,
              <<<<"c","p","t","_","c","o","d","e">>, StrValue(<<"2","9","8","8","1">>)>>,
              <<<<"p","r","o","c","e","d","u","r","e","_","n","a","m","e">>, StrValue(<<"K","n","e","e"," ","A","r","t","h","r","o","s","c","o","p","y"," ","(","M","e","n","i","s","c","e","c","t","o","m","y",")">>)>>,
              <<<<"f","e","e","_","s","c","h","e","d","u","l","e","_","r","a","t","e">>, FloatValue(1250, <<"0">>)>>,
              <<<<"n","o","t","e","s">>, StrValue(<<"A","m","b","u","l","a","t","o","r","y"," ","s","u","r","g","e","r","y"," ","o","n","l","y">>)>> >>,
           << <<<<"i","d">>, IntValue(2)>>,
              <<<<"p","a","y","o","r","_","c","o","n","t","r","a","c","t","_","i","d">>, IntValue(1)>>,
              <<<<"c","p","t","_","c","o","d","e">>, StrValue(<<"2","7","4","4","7">>)>>,
              <<<<"p","r","o","c","e","d","u","r","e","_","n","a","m","e">>, StrValue(<<"T","o","t","a","l"," ","K","n","e","e"," ","A","r","t","h","r","o","p","l","a","s","t","y">>)>>,
              <<<<"f","e","e","_","s","c","h","e","d","u","l","e","_","r","a","t","e">>, FloatValue(7800, <<"0">>)>>,
              <<<<"n","o","t","e","s">>, StrValue(<<"I","n","c","l","u","d","e","s"," ","i","m","p","l","a","n","t">>)>> >> >>
    >>

FaultKinds == {"none", "columns", "foreign_keys", "row_count", "sample_data"}

\* Lines 107..116: the columns of a snapshot entry.
TableColumns(i) ==
    [k \in DOMAIN PragmaTableInfo[i] |->
        LET col == PragmaTableInfo[i][k]
        IN  [name |-> col.name,
             type |-> col.type,
             primary_key |-> col.pk # 0,
             nullable |-> ~(col.notnull # 0),
             default_value |-> col.dflt_value]]

\* Lines 117..124: the foreign keys of a snapshot entry.
TableForeignKeys(i) ==
    [k \in DOMAIN PragmaForeignKeyList[i] |->
        LET fk == PragmaForeignKeyList[i][k]
        IN  [from |-> fk.from, to_table |-> fk.table, to_column |-> fk.to]]

\* The first n elements of a sequence (LIMIT n).
FirstRows(rows, n) == SubSeq(rows, 1, IF Len(rows) < n THEN Len(rows) ELSE n)

\* get_table_row_count swallows its own failure and answers 0.
get_table_row_count(i, fault) ==
    IF fault = "row_count" THEN 0 ELSE Len(SeedRows[i])

\* get_table_sample_data swallows its own failure and answers [].
get_table_sample_data(i, fault) ==
    IF fault = "sample_data"
    THEN << >>
    ELSE FirstRows(SeedRows[i], SampleLimit)

\* Lines 104..126: the entry of table i as the first loop leaves it, with
\* no sample_data yet.
TableEntry(i, fault) ==
    [name |-> TableNames[i],
     columns |-> TableColumns(i),
     foreign_keys |-> TableForeignKeys(i),
     row_count |-> get_table_row_count(i, fault),
     sample_data |-> None]

\* The assignments of faults to tables with at most MaxFaults faulty tables.
FaultAssignments ==
    { f \in [DOMAIN TableNames -> FaultKinds] :
        Cardinality({ i \in DOMAIN f : f[i] # "none" }) <= MaxFaults }

InitBuild ==
    /\ PreIdle
    /\ RwIdle
    /\ ResIdle
    /\ SchemaIdle
    /\ sqlTool = TRUE
    /\ AnnIdle
    /\ PromptIdle
    /\ ThreadIdle
    /\ tables = TableNames
    /\ faults \in FaultAssignments
    /\ schema_info = << >>
    /\ buildPos = 1
    /\ buildStage = "listed"
    /\ schema_result = << >>

\* One pass of the first for loop (lines 100..126).  A failing PRAGMA raises
\* into the except of line 134, which returns {}.  The entry has no
\* sample_data yet.
IntrospectTable ==
    /\ buildStage = "listed"
    /\ Len(schema_info) < Len(tables)
    /\ LET i == Len(schema_info) + 1
       IN  IF faults[i] \in {"columns", "foreign_keys"}
           THEN /\ schema_result' = << >>
                /\ buildStage' = "aborted"
                /\ UNCHANGED schema_info
           ELSE /\ schema_info' = Append(schema_info, TableEntry(i, faults[i]))
                /\ UNCHANGED <<schema_result, buildStage>>
    /\ UNCHANGED <<tables, faults, buildPos>>
    /\ UNCHANGED <<preVars, rwVars, resVars, schemaVars, sqlTool, annVars, promptVars, threadVars>>

\* One pass of the second for loop (lines 129, 130).
SampleTable ==
    /\ buildStage = "listed"
    /\ Len(schema_info) = Len(tables)
    /\ buildPos <= Len(schema_info)
    /\ schema_info' = [schema_info EXCEPT
          ![buildPos].sample_data = get_table_sample_data(buildPos, faults[buildPos])]
    /\ buildPos' = buildPos + 1
    /\ UNCHANGED <<tables, faults, buildStage, schema_result>>
    /\ UNCHANGED <<preVars, rwVars, resVars, schemaVars, sqlTool, annVars, promptVars, threadVars>>

\* return schema_info (line 133)
ReturnSchema ==
    /\ buildStage = "listed"
    /\ Len(schema_info) = Len(tables)
    /\ buildPos > Len(schema_info)
    /\ schema_result' = schema_info
    /\ buildStage' = "returned"
    /\ UNCHANGED <<tables, faults, schema_info, buildPos>>
    /\ UNCHANGED <<preVars, rwVars, resVars, schemaVars, sqlTool, annVars, promptVars, threadVars>>

NextBuild == IntrospectTable \/ SampleTable \/ ReturnSchema

SpecBuild == InitBuild /\ [][NextBuild]_vars

FaultyTables == { i \in 1..Len(tables) : faults[i] # "none" }
SnapshotNames == { schema_result[i].name : i \in 1..Len(schema_result) }

\* C11: when the introspection of a single table of several fails (its
\* column listing, its foreign-key listing, its row count or its sample
\* fetch), the snapshot the Builder returns omits exactly that table and
\* holds every other one, and the build is not aborted.
C11_PartialResult ==
    (/\ buildStage \in {"returned", "aborted"}
     /\ Len(tables) > 1
     /\ Cardinality(FaultyTables) = 1) =>
        /\ buildStage = "returned"
        /\ SnapshotNames = { tables[i] : i \in 1..Len(tables) } \
                           { tables[i] : i \in FaultyTables }

(***************************************************************************)
(* Schema Cache, sql_agent and display_schema, one thread per session.     *)
(* A request gives way to the others wherever the code waits: in each      *)
(* query of the store and in agent.run.  The wrapper lru_cache puts around *)
(* get_table_schema looks the key up, calls the function with no lock      *)
(* held, and stores the result unless the key has been stored meanwhile.   *)
(***************************************************************************)
Window == 300           \* sql_agent line 235: time.time() // (60 * 5)
SchemaCacheSize == 32   \* line 88: @lru_cache(maxsize=32)
ClockStep == 300        \* the clock advances in steps of this many seconds
MaxTicks == 1           \* the clock stops after this many steps
MaxChanges == 1         \* the store changes at most this many times
MaxRequests == 3        \* the sessions make at most this many requests
MaxFailures == 1        \* the store begins to fail at most this many times
MaxMoves == 3           \* two sessions see at most this many requests and events

\* The cache key of display_schema's call, which passes no argument.
NoArgKey == -1

\* The queries of one build, in the order the code runs them: for each table
\* PRAGMA table_info (line 102), PRAGMA foreign_key_list (line 104) and
\* SELECT COUNT(*) (line 142), then for each table SELECT * ... LIMIT 3
\* (line 155).  Query p is the one a build runs after p others.
NumTables == Len(TableNames)
InFirstLoop(p) == p < 3 * NumTables
IsPragma(p) == InFirstLoop(p) /\ p % 3 \in {0, 1}
IsCount(p) == InFirstLoop(p) /\ p % 3 = 2
IsSample(p) == ~InFirstLoop(p) /\ p < 4 * NumTables
TableOf(p) == IF InFirstLoop(p) THEN (p \div 3) + 1 ELSE p - 3 * NumTables + 1

\* A dict get_table_schema returns.  id is the identity of the object: a
\* call that runs the body returns a new object, named by the number of
\* its request.  version and last are the versions of the store its first
\* and its last query read; zeroed are the tables whose row count is 0 and
\* unsampled the tables whose sample is [] because the query raised.
NewSnapshot(id) ==
    [id |-> id, empty |-> FALSE, version |-> storeVersion, last |-> storeVersion,
     zeroed |-> {}, unsampled |-> {}]

\* The {} of lines 93 and 136.
EmptySnapshot(id) ==
    [id |-> id, empty |-> TRUE, version |-> 0, last |-> 0,
     zeroed |-> {}, unsampled |-> {}]

\* The caller goes on with v.  sql_agent (lines 236, 237) returns the schema
\* failure for an empty snapshot, and else composes the prompt and waits in
\* agent.run (line 315); display_schema renders v and returns.
Returns(t, caller, v) ==
    IF caller = "sql_agent"
    THEN IF v.empty
         THEN /\ thPc' = [thPc EXCEPT ![t] = "done"]
              /\ response' = [response EXCEPT ![t] = "schema_failed"]
         ELSE /\ thPc' = [thPc EXCEPT ![t] = "waiting"]
              /\ response' = [response EXCEPT ![t] = "none"]
    ELSE /\ thPc' = [thPc EXCEPT ![t] = "done"]
         /\ UNCHANGED response

\* get_table_schema(k) in thread t, up to the lookup of the wrapper: a hit
\* returns the cached object; a miss goes on to call the function.
Lookup(t, caller, k) ==
    /\ thCaller' = [thCaller EXCEPT ![t] = caller]
    /\ thKey' = [thKey EXCEPT ![t] = k]
    /\ IF LruHit(schemaCache, k)
       THEN /\ thVal' = [thVal EXCEPT ![t] = LruGet(schemaCache, k)]
            /\ thBuilt' = [thBuilt EXCEPT ![t] = FALSE]
            /\ schemaCache' = LruTouch(schemaCache, k)
            /\ Returns(t, caller, LruGet(schemaCache, k))
       ELSE /\ thVal' = [thVal EXCEPT ![t] = EmptySnapshot(requests + 1)]
            /\ thBuilt' = [thBuilt EXCEPT ![t] = TRUE]
            /\ thPc' = [thPc EXCEPT ![t] = "missed"]
            /\ response' = [response EXCEPT ![t] =
                               IF caller = "sql_agent" THEN "none" ELSE @]
            /\ UNCHANGED schemaCache

\* sql_agent(query) in thread t, lines 226..235: the connection failure when
\* sql_tool is unset, else the call of get_table_schema with the time bucket.
SqlAgent(t) ==
    /\ thPc[t] \in {"idle", "done"}
    /\ requests < MaxRequests
    /\ requests' = requests + 1
    /\ IF ~sqlTool
       THEN /\ thCaller' = [thCaller EXCEPT ![t] = "sql_agent"]
            /\ response' = [response EXCEPT ![t] = "connection_failed"]
            /\ thPc' = [thPc EXCEPT ![t] = "done"]
            /\ UNCHANGED <<schemaCache, thKey, thVal, thBuilt>>
       ELSE Lookup(t, "sql_agent", now \div Window)
    /\ UNCHANGED <<now, storeVersion, changedAt, storeFails, failures, thPos>>
    /\ UNCHANGED <<preVars, rwVars, resVars, sqlTool, buildVars, annVars, promptVars>>

\* display_schema() in thread t: get_table_schema() with no cache key.
DisplaySchema(t) ==
    /\ thPc[t] \in {"idle", "done"}
    /\ requests < MaxRequests
    /\ requests' = requests + 1
    /\ Lookup(t, "display_schema", NoArgKey)
    /\ UNCHANGED <<now, storeVersion, changedAt, storeFails, failures, thPos>>
    /\ UNCHANGED <<preVars, rwVars, resVars, sqlTool, buildVars, annVars, promptVars>>

\* The body of get_table_schema in thread t, lines 91..99: {} when sql_tool
\* is unset or the listing of the tables raises, else a new dict for the
\* tables of the store as it is now.
ListTables(t) ==
    /\ thPc[t] = "missed"
    /\ thPos' = [thPos EXCEPT ![t] = 0]
    /\ IF sqlTool /\ ~storeFails
       THEN /\ thVal' = [thVal EXCEPT ![t] = NewSnapshot(thVal[t].id)]
            /\ thPc' = [thPc EXCEPT ![t] = "building"]
       ELSE /\ thVal' = [thVal EXCEPT ![t] = EmptySnapshot(thVal[t].id)]
            /\ thPc' = [thPc EXCEPT ![t] = "built"]
    /\ UNCHANGED <<now, storeVersion, changedAt, storeFails, failures, schemaCache,
                   requests, thCaller, thKey, thBuilt, response>>
    /\ UNCHANGED <<preVars, rwVars, resVars, sqlTool, buildVars, annVars, promptVars>>

\* Lines 102 and 104 in thread t: one PRAGMA on the store as it is now.  When
\* it raises, the except of lines 134..136 drops the dict and returns {}.
RunPragma(t) ==
    /\ thPc[t] = "building"
    /\ IsPragma(thPos[t])
    /\ IF storeFails
       THEN /\ thVal' = [thVal EXCEPT ![t] = EmptySnapshot(thVal[t].id)]
            /\ thPos' = [thPos EXCEPT ![t] = 0]
            /\ thPc' = [thPc EXCEPT ![t] = "built"]
       ELSE /\ thVal' = [thVal EXCEPT ![t].last = storeVersion]
            /\ thPos' = [thPos EXCEPT ![t] = @ + 1]
            /\ UNCHANGED thPc
    /\ UNCHANGED <<now, storeVersion, changedAt, storeFails, failures, schemaCache,
                   requests, thCaller, thKey, thBuilt, response>>
    /\ UNCHANGED <<preVars, rwVars, resVars, sqlTool, buildVars, annVars, promptVars>>

\* Line 125 in thread t: get_table_row_count (lines 138..150) on the store
\* as it is now; when the query raises, the row count of the table is 0.
CountRows(t) ==
    /\ thPc[t] = "building"
    /\ IsCount(thPos[t])
    /\ thVal' = IF storeFails
                THEN [thVal EXCEPT ![t].zeroed = @ \cup {TableOf(thPos[t])}]
                ELSE [thVal EXCEPT ![t].last = storeVersion]
    /\ thPos' = [thPos EXCEPT ![t] = @ + 1]
    /\ UNCHANGED <<now, storeVersion, changedAt, storeFails, failures, schemaCache,
                   requests, thPc, thCaller, thKey, thBuilt, response>>
    /\ UNCHANGED <<preVars, rwVars, resVars, sqlTool, buildVars, annVars, promptVars>>

\* Line 130 in thread t: get_table_sample_data (lines 152..158) on the store
\* as it is now; when the query raises, the sample of the table is [].  After
\* the last table the body returns the dict (line 133).
SampleRows(t) ==
    /\ thPc[t] = "building"
    /\ IsSample(thPos[t])
    /\ thVal' = IF storeFails
                THEN [thVal EXCEPT ![t].unsampled = @ \cup {TableOf(thPos[t])}]
                ELSE [thVal EXCEPT ![t].last = storeVersion]
    /\ thPos' = [thPos EXCEPT ![t] = IF IsSample(@ + 1) THEN @ + 1 ELSE 0]
    /\ thPc' = [thPc EXCEPT ![t] =
                   IF IsSample(thPos[t] + 1) THEN "building" ELSE "built"]
    /\ UNCHANGED <<now, storeVersion, changedAt, storeFails, failures, schemaCache,
                   requests, thCaller, thKey, thBuilt, response>>
    /\ UNCHANGED <<preVars, rwVars, resVars, sqlTool, buildVars, annVars, promptVars>>

\* Back in the wrapper: the result is stored unless another thread stored
\* the key while the body ran; the call returns its own result either way.
StoreResult(t) ==
    /\ thPc[t] = "built"
    /\ schemaCache' = IF LruHit(schemaCache, thKey[t])
                      THEN schemaCache
                      ELSE LruPut(schemaCache, thKey[t], thVal[t], SchemaCacheSize)
    /\ Returns(t, thCaller[t], thVal[t])
    /\ UNCHANGED <<now, storeVersion, changedAt, storeFails, failures, requests,
                   thCaller, thKey, thVal, thPos, thBuilt>>
    /\ UNCHANGED <<preVars, rwVars, resVars, sqlTool, buildVars, annVars, promptVars>>

\* What the agent does with the prompt: it raises (or times out), answers
\* with no fenced SQL block, or answers with one.
AgentBlocks == { <<"a","=","'","x","'">>, <<"a","=","'","x">> }

AgentOutcomes ==
    { [kind |-> "raise", block |-> << >>], [kind |-> "nosql", block |-> << >>] }
    \cup { [kind |-> "sql", block |-> b] : b \in AgentBlocks }

\* sql_agent lines 306-360: the answer, or the error payload when the agent
\* or the rewriter raises.
AgentResponse(outcome) ==
    IF outcome.kind = "raise" THEN "error"
    ELSE IF outcome.kind = "nosql" THEN "answer"
    ELSE LET extracted == Strip(outcome.block)
             improved == detect_and_handle_duplicates(extracted).sql
         IN  IF improve_string_matching(improved).raised THEN "error" ELSE "answer"

\* agent.run (line 315) ends in thread t, and sql_agent returns.
AgentRun(t, outcome) ==
    /\ thPc[t] = "waiting"
    /\ response' = [response EXCEPT ![t] = AgentResponse(outcome)]
    /\ thPc' = [thPc EXCEPT ![t] = "done"]
    /\ UNCHANGED <<thCaller, thKey, thVal, thPos, thBuilt>>
    /\ UNCHANGED <<preVars, rwVars, resVars, schemaVars, sqlTool, buildVars, annVars, promptVars>>

\* Time passes.
Tick ==
    /\ now < MaxTicks * ClockStep
    /\ now' = now + ClockStep
    /\ UNCHANGED <<storeVersion, changedAt, storeFails, failures, schemaCache, requests>>
    /\ UNCHANGED <<preVars, rwVars, resVars, sqlTool, auxVars>>

\* The store changes (rows are added, changed or removed).
ChangeStore ==
    /\ storeVersion < MaxChanges
    /\ storeVersion' = storeVersion + 1
    /\ changedAt' = Append(changedAt, now)
    /\ UNCHANGED <<now, storeFails, failures, schemaCache, requests>>
    /\ UNCHANGED <<preVars, rwVars, resVars, sqlTool, auxVars>>

\* The store begins to fail its queries, or recovers.
ToggleStoreFailure ==
    /\ storeFails \/ failures < MaxFailures
    /\ storeFails' = ~storeFails
    /\ failures' = IF storeFails THEN failures ELSE failures + 1
    /\ UNCHANGED <<now, storeVersion, changedAt, schemaCache, requests>>
    /\ UNCHANGED <<preVars, rwVars, resVars, sqlTool, auxVars>>

Init ==
    /\ PreIdle
    /\ RwIdle
    /\ ResIdle
    /\ sqlTool \in BOOLEAN
    /\ SchemaIdle
    /\ BuildIdle
    /\ AnnIdle
    /\ PromptIdle
    /\ thPc = [t \in Threads |-> "idle"]
    /\ thCaller = [t \in Threads |-> "none"]
    /\ thKey = [t \in Threads |-> 0]
    /\ thVal = [t \in Threads |-> NoSnapshot]
    /\ thPos = [t \in Threads |-> 0]
    /\ thBuilt = [t \in Threads |-> FALSE]
    /\ response = [t \in Threads |-> "none"]

\* The requests made and the events of the clock and the store so far.
Moves ==
    requests + (now \div ClockStep) + storeVersion
    + 2 * failures - (IF storeFails THEN 1 ELSE 0)

\* Two sessions, each request giving way to the other and to the clock and the
\* store at every query.
Next ==
    \/ \E t \in Threads : Moves < MaxMoves /\ SqlAgent(t)
    \/ \E t \in Threads : Moves < MaxMoves /\ DisplaySchema(t)
    \/ \E t \in Threads : ListTables(t)
    \/ \E t \in Threads : RunPragma(t)
    \/ \E t \in Threads : CountRows(t)
    \/ \E t \in Threads : SampleRows(t)
    \/ \E t \in Threads : StoreResult(t)
    \/ \E t \in Threads, outcome \in AgentOutcomes : AgentRun(t, outcome)
    \/ Moves < MaxMoves /\ Tick
    \/ Moves < MaxMoves /\ ChangeStore
    \/ Moves < MaxMoves /\ ToggleStoreFailure

Spec == Init /\ [][Next]_vars

\* One session: main() serves one request after the other (lines 555, 594).
NextSequential ==
    \/ SqlAgent(1)
    \/ DisplaySchema(1)
    \/ ListTables(1)
    \/ RunPragma(1)
    \/ CountRows(1)
    \/ SampleRows(1)
    \/ StoreResult(1)
    \/ \E outcome \in AgentOutcomes : AgentRun(1, outcome)
    \/ Tick
    \/ ChangeStore
    \/ ToggleStoreFailure

SpecSequential == Init /\ [][NextSequential]_vars

(***************************************************************************)
(* Schema Cache: claims                                                    *)
(***************************************************************************)
\* Thread t holds what its call of get_table_schema returned.
HasSnapshot(t) == thPc[t] \in {"waiting", "done"} /\ thVal[t] # NoSnapshot

\* Thread t calls get_table_schema in this step.
Calls(t) == (sqlTool /\ SqlAgent(t)) \/ DisplaySchema(t)

\* C1: of two sequential calls of get_table_schema with the same key (the
\* two calls a thread makes one after the other), the second returns the
\* very object the first returned and does not query the store.
C1_RepeatReturnsSameObject ==
    [][ \A t \in Threads :
          (HasSnapshot(t) /\ Calls(t) /\ thKey'[t] = thKey[t]) =>
              /\ thPc'[t] # "missed"
              /\ thVal'[t] = thVal[t] ]_vars

\* C2: staleness is bounded by one window: a call of get_table_schema that
\* is served from the cache returns a snapshot that reflects every change of
\* the store that is at least one window old.  (A call that is not served
\* from the cache reads the store after it began.)
C2_StalenessBounded ==
    [][ \A t \in Threads :
          (Calls(t) /\ thPc'[t] # "missed" /\ ~thVal'[t].empty) =>
              \A v \in 1..storeVersion :
                  changedAt[v] + Window <= now => thVal'[t].version >= v ]_vars

\* C12: nothing is cached from a failed attempt: when sql_agent failed
\* because the schema could not be retrieved and the same thread issues the
\* question again in the same five-minute bucket, the second request
\* introspects the store afresh.
C12_FailedAttemptNotCached ==
    [][ \A t \in Threads :
          (/\ thPc[t] = "done"
           /\ thCaller[t] = "sql_agent"
           /\ response[t] = "schema_failed"
           /\ SqlAgent(t)
           /\ thKey'[t] = thKey[t]) =>
              thPc'[t] = "missed" ]_vars

\* C15: all-or-nothing per request: when the agent call of a request of
\* sql_agent has timed out, been cancelled or raised, the Schema Cache holds
\* no entry that request created.
C15_NoCacheWriteOnAgentFailure ==
    \A t \in Threads :
        (/\ thPc[t] = "done"
         /\ thCaller[t] = "sql_agent"
         /\ response[t] = "error"
         /\ thBuilt[t]) =>
            ~\E i \in DOMAIN schemaCache : schemaCache[i].val.id = thVal[t].id

\* C16: mutation of a cache bucket is serialized: of two threads that called
\* get_table_schema with the same time bucket, at most one ran the Builder,
\* and both received the identical snapshot object.
C16_BuilderRunsOncePerBucket ==
    \A t, u \in Threads :
        (/\ t # u
         /\ HasSnapshot(t)
         /\ HasSnapshot(u)
         /\ thKey[t] = thKey[u]) =>
            /\ ~(thBuilt[t] /\ thBuilt[u])
            /\ thVal[t].id = thVal[u].id

\* C17: only an unset sql_tool short-circuits: sql_agent returns without
\* building the prompt and calling the agent exactly when sql_tool is unset,
\* and in every other case, an empty snapshot included, the agent is called.
C17_OnlyStoreUnavailable ==
    \A t \in Threads :
        response[t] # "none" =>
            (response[t] \in {"connection_failed", "schema_failed"} <=> ~sqlTool)

(***************************************************************************)
(* Insight Annotator: add_data_quality_insights                            *)
(***************************************************************************)
\* str.lower() on the characters beyond A..Z that it changes; one character
\* can become two.
NonAsciiLowerOf ==
    "U+00C0" :> <<"U+00E0">>
    @@ "U+00C1" :> <<"U+00E1">>
    @@ "U+00C2" :> <<"U+00E2">>
    @@ "U+00C3" :> <<"U+00E3">>
    @@ "U+00C4" :> <<"U+00E4">>
    @@ "U+00C5" :> <<"U+00E5">>
    @@ "U+00C6" :> <<"U+00E6">>
    @@ "U+00C7" :> <<"U+00E7">>
    @@ "U+00C8" :> <<"U+00E8">>
    @@ "U+00C9" :> <<"U+00E9">>
    @@ "U+00CA" :> <<"U+00EA">>
    @@ "U+00CB" :> <<"U+00EB">>
    @@ "U+00CC" :> <<"U+00EC">>
    @@ "U+00CD" :> <<"U+00ED">>
    @@ "U+00CE" :> <<"U+00EE">>
    @@ "U+00CF" :> <<"U+00EF">>
    @@ "U+00D0" :> <<"U+00F0">>
    @@ "U+00D1" :> <<"U+00F1">>
    @@ "U+00D2" :> <<"U+00F2">>
    @@ "U+00D3" :> <<"U+00F3">>
    @@ "U+00D4" :> <<"U+00F4">>
    @@ "U+00D5" :> <<"U+00F5">>
    @@ "U+00D6" :> <<"U+00F6">>
    @@ "U+00D8" :> <<"U+00F8">>
    @@ "U+00D9" :> <<"U+00F9">>
    @@ "U+00DA" :> <<"U+00FA">>
    @@ "U+00DB" :> <<"U+00FB">>
    @@ "U+00DC" :> <<"U+00FC">>
    @@ "U+00DD" :> <<"U+00FD">>
    @@ "U+00DE" :> <<"U+00FE">>
    @@ "U+0130" :> <<"i", "U+0307">>
    @@ "U+0178" :> <<"U+00FF">>
    @@ "U+039C" :> <<"U+03BC">>
    @@ "U+212A" :> <<"k">>

\* str.lower() on one character: the text it becomes.
LowerOf ==
    [c \in Range(UpperCase) |->
        <<LowerCase[CHOOSE i \in DOMAIN UpperCase : UpperCase[i] = c]>>]
    @@ NonAsciiLowerOf
Lower(c) == IF c \in DOMAIN LowerOf THEN LowerOf[c] ELSE <<c>>

\* str.lower()
LowerSeq(s) == Concat([i \in DOMAIN s |-> Lower(s[i])])

\* The advisory block of lines 371..379.
DataQualityNote ==
    << "\n",
       "#","#","#"," ","D","a","t","a"," ","Q","u","a","l","i","t","y"," ","N",
       "o","t","e","\n",
       "N","o"," ","r","e","s","u","l","t","s"," ","w","e","r","e"," ","f","o",
       "u","n","d","."," ","T","h","i","s"," ","c","o","u","l","d"," ","b","e",
       " ","d","u","e"," ","t","o",":","\n",
       "-"," ","T","h","e"," ","s","e","a","r","c","h"," ","c","r","i","t","e",
       "r","i","a"," ","b","e","i","n","g"," ","t","o","o"," ","s","p","e","c",
       "i","f","i","c","\n",
       "-"," ","P","o","s","s","i","b","l","e"," ","d","a","t","a"," ","e","n",
       "t","r","y"," ","i","n","c","o","n","s","i","s","t","e","n","c","i","e",
       "s"," ","i","n"," ","t","h","e"," ","d","a","t","a","b","a","s","e","\n",
       "-"," ","T","h","e"," ","i","n","f","o","r","m","a","t","i","o","n"," ",
       "m","a","y"," ","n","o","t"," ","b","e"," ","r","e","c","o","r","d","e",
       "d"," ","i","n"," ","t","h","e"," ","s","y","s","t","e","m","\n",
       "\n",
       "C","o","n","s","i","d","e","r"," ","b","r","o","a","d","e","n","i","n",
       "g"," ","y","o","u","r"," ","s","e","a","r","c","h"," ","t","e","r","m",
       "s"," ","o","r"," ","c","h","e","c","k","i","n","g"," ","a","l","t","e",
       "r","n","a","t","i","v","e"," ","s","p","e","l","l","i","n","g","s",".",
       "\n" >>

\* The advisory block of lines 381..387.
DataInterpretationNote ==
    << "\n",
       "#","#","#"," ","D","a","t","a"," ","I","n","t","e","r","p","r","e","t",
       "a","t","i","o","n"," ","N","o","t","e","\n",
       "A"," ","l","a","r","g","e"," ","n","u","m","b","e","r"," ","o","f"," ",
       "r","e","s","u","l","t","s"," ","w","e","r","e"," ","r","e","t","u","r",
       "n","e","d","."," ","C","o","n","s","i","d","e","r",":","\n",
       "-"," ","A","d","d","i","n","g"," ","m","o","r","e"," ","s","p","e","c",
       "i","f","i","c"," ","f","i","l","t","e","r","s"," ","t","o"," ","n","a",
       "r","r","o","w"," ","y","o","u","r"," ","s","e","a","r","c","h","\n",
       "-"," ","L","o","o","k","i","n","g"," ","f","o","r"," ","p","a","t","t",
       "e","r","n","s"," ","o","r"," ","t","r","e","n","d","s"," ","i","n"," ",
       "t","h","e"," ","d","a","t","a"," ","r","a","t","h","e","r"," ","t","h",
       "a","n"," ","i","n","d","i","v","i","d","u","a","l"," ","r","e","c","o",
       "r","d","s","\n",
       "-"," ","E","x","p","o","r","t","i","n","g"," ","t","h","e"," ","r","e",
       "s","u","l","t","s"," ","f","o","r"," ","f","u","r","t","h","e","r"," ",
       "a","n","a","l","y","s","i","s"," ","i","f"," ","n","e","e","d","e","d",
       "\n" >>

\* "no results" in content.lower() or "no rows" in content.lower()
has_empty_results(text) ==
    \/ Contains(LowerSeq(text), <<"n","o"," ","r","e","s","u","l","t","s">>)
    \/ Contains(LowerSeq(text), <<"n","o"," ","r","o","w","s">>)

\* "many results" in content.lower() or "large number" in content.lower()
has_many_results(text) ==
    \/ Contains(LowerSeq(text), <<"m","a","n","y"," ","r","e","s","u","l","t","s">>)
    \/ Contains(LowerSeq(text), <<"l","a","r","g","e"," ","n","u","m","b","e","r">>)

\* add_data_quality_insights with the elif of line 380 written as an if.
add_data_quality_insights_both(text) ==
    LET first == IF has_empty_results(text) THEN DataQualityNote ELSE << >>
        insights == IF has_many_results(text)
                    THEN first \o DataInterpretationNote
                    ELSE first
    IN  IF insights # << >> THEN text \o insights ELSE text

add_data_quality_insights(text) ==
    LET insights == IF has_empty_results(text) THEN DataQualityNote
                    ELSE IF has_many_results(text) THEN DataInterpretationNote
                    ELSE << >>
    IN  IF insights # << >> THEN text \o insights ELSE text

MaxAnnFrags == 3

\* Pieces of a response text: the four phrases in mixed case, and pieces
\* that only look like them, one of them with letters beyond ASCII.
AnnFrags ==
    { <<"N","o"," ","r","e","s","u","l","t","s">>,
      <<"n","o"," ","R","O","W","S">>,
      <<"M","a","n","y"," ","r","e","s","u","l","t","s">>,
      <<"l","a","r","g","e"," ","N","u","m","b","e","r">>,
      <<"n","o"," ">>,
      <<"r","o","w","s">>,
      <<"n","o"," ","r","e","U+017F","u","l","t","s"," ","U+00C9">>,
      <<".","\n">> }

AnnInputs == { Concat(p) : p \in SeqsUpTo(AnnFrags, MaxAnnFrags) }

InitAnnotate ==
    /\ PreIdle
    /\ RwIdle
    /\ ResIdle
    /\ SchemaIdle
    /\ sqlTool = TRUE
    /\ BuildIdle
    /\ PromptIdle
    /\ ThreadIdle
    /\ content \in AnnInputs
    /\ annotated = << >>
    /\ annStage = "input"

\* sql_agent line 340: output.content = add_data_quality_insights(output.content)
Annotate ==
    /\ annStage = "input"
    /\ annotated' = add_data_quality_insights(content)
    /\ annStage' = "annotated"
    /\ UNCHANGED content
    /\ UNCHANGED <<preVars, rwVars, resVars, schemaVars, sqlTool, buildVars, promptVars, threadVars>>

NextAnnotate == Annotate

SpecAnnotate == InitAnnotate /\ [][NextAnnotate]_vars

\* The text t, given in upper-case ASCII letters, occurs in s with its
\* letters in either case.
MentionsCI(s, t) ==
    \E i \in 1..(Len(s) - Len(t) + 1) :
        \A k \in 1..Len(t) :
            LET c == s[i + k - 1]
            IN  \/ c = t[k]
                \/ \E j \in DOMAIN LowerCase : c = LowerCase[j] /\ UpperCase[j] = t[k]

MentionsEmpty(s) ==
    \/ MentionsCI(s, <<"N","O"," ","R","E","S","U","L","T","S">>)
    \/ MentionsCI(s, <<"N","O"," ","R","O","W","S">>)

MentionsMany(s) ==
    \/ MentionsCI(s, <<"M","A","N","Y"," ","R","E","S","U","L","T","S">>)
    \/ MentionsCI(s, <<"L","A","R","G","E"," ","N","U","M","B","E","R">>)

\* What the annotator put after the text it was given.
AnnSuffix == SubSeq(annotated, Len(content) + 1, Len(annotated))

\* C13: the output of the Insight Annotator starts with its input, unchanged;
\* what follows is empty when the input holds neither an empty-result nor a
\* many-result phrase, and otherwise exactly one of the two advisory blocks,
\* never both.
C13_PrefixAndOneBlock ==
    annStage = "annotated" =>
        /\ Len(annotated) >= Len(content)
        /\ SubSeq(annotated, 1, Len(content)) = content
        /\ IF MentionsEmpty(content) \/ MentionsMany(content)
           THEN AnnSuffix \in {DataQualityNote, DataInterpretationNote}
           ELSE AnnSuffix = << >>

\* C13's case: a text with an empty-result and a many-result phrase was
\* annotated, and one block follows it.
C13_Witness ==
    /\ annStage = "annotated"
    /\ MentionsEmpty(content)
    /\ MentionsMany(content)
    /\ AnnSuffix = DataQualityNote

(***************************************************************************)
(* Prompt Composer: sql_agent lines 239..302                               *)
(***************************************************************************)
\* The character U+2192 (rightwards arrow) of line 256, as one element.
RightArrow == "U+2192"

\* The character U+0060 (the backquote of the fences), as one element.
Backquote == "U+0060"

DigitChars == <<"0","1","2","3","4","5","6","7","8","9">>

\* str(n) of a natural number: what an f-string makes of row_count.
RECURSIVE ToDecimal(_)
ToDecimal(n) ==
    IF n < 10 THEN <<DigitChars[n + 1]>>
    ELSE ToDecimal(n \div 10) \o <<DigitChars[(n % 10) + 1]>>

\* Line 250: one column; a default value of None or '' is left out.
RenderColumn(col) ==
    LET pk_marker == IF col.primary_key THEN <<" ","(","P","K",")">> ELSE << >>
        nullable == IF col.nullable THEN <<" ","N","U","L","L">>
                    ELSE <<" ","N","O","T"," ","N","U","L","L">>
        default == IF col.default_value # None /\ col.default_value # << >>
                   THEN <<" ","D","E","F","A","U","L","T"," ">> \o col.default_value
                   ELSE << >>
    IN  <<"-"," ">> \o col.name \o <<":"," ">> \o col.type
            \o pk_marker \o nullable \o default \o <<"\n">>

\* Line 256: one foreign key.
RenderForeignKey(fk) ==
    <<"-"," ">> \o fk.from \o <<" ", RightArrow, " ">> \o fk.to_table
        \o <<".">> \o fk.to_column \o <<"\n">>

\* repr of a str: in single quotes, or in double quotes when the text holds
\* a single quote and no double quote; the quote, the backslash and the
\* line ends are escaped (the texts of the store hold no other character
\* that repr escapes).
ReprStr(text) ==
    LET quote == IF (\E i \in DOMAIN text : text[i] = "'")
                    /\ ~(\E i \in DOMAIN text : text[i] = "\"")
                 THEN "\"" ELSE "'"
        escaped(c) ==
            IF c = "\\" THEN <<"\\","\\">>
            ELSE IF c = quote THEN <<"\\", c>>
            ELSE IF c = "\n" THEN <<"\\","n">>
            ELSE IF c = "\r" THEN <<"\\","r">>
            ELSE IF c = "\t" THEN <<"\\","t">>
            ELSE <<c>>
    IN  <<quote>> \o Concat([i \in DOMAIN text |-> escaped(text[i])]) \o <<quote>>

\* repr of a value of a row.
ReprValue(v) ==
    CASE v.kind = "None" -> <<"N","o","n","e">>
      [] v.kind = "int" -> ToDecimal(v.n)
      [] v.kind = "float" -> ToDecimal(v.n) \o <<".">> \o v.text
      [] v.kind = "str" -> ReprStr(v.text)

\* Line 265: str(row) of the dict of a row.
StrOfRow(row) ==
    <<"{">>
        \o Concat([i \in DOMAIN row |->
              (IF i = 1 THEN << >> ELSE <<","," ">>)
                  \o ReprStr(row[i][1]) \o <<":"," ">> \o ReprValue(row[i][2])])
        \o <<"}">>

\* Lines 262..267: the rows between two fences.
RenderSample(sample) ==
    <<Backquote,Backquote,Backquote,"\n">>
        \o Concat([i \in DOMAIN sample |-> StrOfRow(sample[i]) \o <<"\n">>])
        \o <<Backquote,Backquote,Backquote,"\n">>

\* Lines 242..269: the section of one table.
RenderTable(info) ==
    <<"#","#"," ","T","a","b","l","e",":"," ">> \o info.name
        \o <<" ","(">> \o ToDecimal(info.row_count) \o <<" ","r","o","w","s",")","\n">>
        \o <<"#","#","#"," ","C","o","l","u","m","n","s",":","\n">>
        \o Concat([i \in DOMAIN info.columns |-> RenderColumn(info.columns[i])])
        \o (IF info.foreign_keys # << >>
            THEN <<"#","#","#"," ","R","e","l","a","t","i","o","n","s","h","i","p","s",":","\n">>
                 \o Concat([i \in DOMAIN info.foreign_keys |->
                               RenderForeignKey(info.foreign_keys[i])])
            ELSE << >>)
        \o (IF info.sample_data # << >>
            THEN <<"#","#","#"," ","S","a","m","p","l","e"," ","D","a","t","a",":","\n">>
                 \o RenderSample(info.sample_data)
            ELSE << >>)
        \o <<"\n">>

\* Lines 240..269: schema_prompt.
SchemaPrompt(infos) ==
    <<"#"," ","D","a","t","a","b","a","s","e"," ","S","c","h","e","m","a","\n","\n">>
        \o Concat([i \in DOMAIN infos |-> RenderTable(infos[i])])

\* Lines 272..291: prompt_guidance.
prompt_guidance ==
    << "\n",
       "#"," ","Q","u","e","r","y"," ","R","e","q","u","i","r","e","m","e","n",
       "t","s",":","\n",
       "1","."," ","A","L","W","A","Y","S"," ","u","s","e"," ","D","I","S","T",
       "I","N","C","T"," ","w","h","e","n"," ","p","e","r","f","o","r","m","i",
       "n","g"," ","J","O","I","N","s"," ","t","o"," ","a","v","o","i","d"," ",
       "d","u","p","l","i","c","a","t","e"," ","r","o","w","s","\n",
       "2","."," ","U","s","e"," ","L","O","W","E","R","(",")"," ","f","u","n",
       "c","t","i","o","n"," ","f","o","r"," ","c","a","s","e","-","i","n","s",
       "e","n","s","i","t","i","v","e"," ","s","t","r","i","n","g"," ","c","o",
       "m","p","a","r","i","s","o","n","s"," ","\n",
       "3","."," ","U","s","e"," ","L","I","K","E"," ","w","i","t","h"," ","w",
       "i","l","d","c","a","r","d","s"," ","(","%",")"," ","f","o","r"," ","p",
       "a","r","t","i","a","l"," ","s","t","r","i","n","g"," ","m","a","t","c",
       "h","i","n","g","\n",
       "4","."," ","F","o","r","m","a","t"," ","d","a","t","e","s"," ","c","o",
       "n","s","i","s","t","e","n","t","l","y"," ","u","s","i","n","g"," ","s",
       "t","r","f","t","i","m","e","(",")"," ","f","u","n","c","t","i","o","n",
       "\n",
       "5","."," ","W","h","e","n"," ","a","p","p","r","o","p","r","i","a","t",
       "e",","," ","i","n","c","l","u","d","e"," ","G","R","O","U","P"," ","B",
       "Y"," ","f","o","r"," ","a","g","g","r","e","g","a","t","i","o","n","\n",
       "6","."," ","U","s","e"," ","m","e","a","n","i","n","g","f","u","l"," ",
       "c","o","l","u","m","n"," ","a","l","i","a","s","e","s"," ","f","o","r",
       " ","b","e","t","t","e","r"," ","r","e","a","d","a","b","i","l","i","t",
       "y","\n",
       "7","."," ","C","o","n","v","e","r","t"," ","r","a","w"," ","d","a","t",
       "a"," ","i","n","t","o"," ","i","n","s","i","g","h","t","s"," ","w","h",
       "e","n"," ","a","p","p","r","o","p","r","i","a","t","e","\n",
       "8","."," ","L","i","m","i","t"," ","r","e","s","u","l","t"," ","s","e",
       "t","s"," ","t","o"," ","a"," ","r","e","a","s","o","n","a","b","l","e",
       " ","s","i","z","e"," ","(","m","a","x"," ","1","0","0"," ","r","o","w",
       "s",")","\n",
       "9","."," ","A","d","d"," ","p","r","o","p","e","r"," ","e","r","r","o",
       "r"," ","h","a","n","d","l","i","n","g"," ","f","o","r"," ","e","m","p",
       "t","y"," ","r","e","s","u","l","t"," ","s","e","t","s","\n",
       "\n",
       "#"," ","R","e","s","p","o","n","s","e"," ","F","o","r","m","a","t",":",
       "\n",
       "0","."," ","e","x","p","l","a","n","a","t","i","o","n"," ","m","u","s",
       "t"," ","s","h","o","u","l","d"," ","b","e"," ","i","n"," ","n","o","r",
       "m","a","l"," ","f","o","r","m","a","t","e"," ","a","n","d"," ","n","o",
       "r","m","a","l"," ","e","n","g","l","i","s","h"," ","g","i","v","e"," ",
       "s","p","a","c","e"," ","b","e","t","w","e","e","n"," ","e","a","c","h",
       " ","w","o","r","d","\n",
       "1","."," ","A"," ","b","r","i","e","f"," ","e","x","p","l","a","n","a",
       "t","i","o","n"," ","o","f"," ","h","o","w"," ","y","o","u","'","r","e",
       " ","a","p","p","r","o","a","c","h","i","n","g"," ","t","h","e"," ","q",
       "u","e","s","t","i","o","n","\n",
       "2","."," ","T","h","e"," ","S","Q","L"," ","q","u","e","r","y"," ","(",
       "c","l","e","a","r","l","y"," ","f","o","r","m","a","t","t","e","d"," ",
       "a","n","d"," ","w","i","t","h"," ","c","o","m","m","e","n","t","s",")",
       "\n",
       "3","."," ","T","h","e"," ","r","e","s","u","l","t","s"," ","i","n"," ",
       "a"," ","c","l","e","a","n",","," ","r","e","a","d","a","b","l","e"," ",
       "f","o","r","m","a","t"," ","(","u","s","e"," ","m","a","r","k","d","o",
       "w","n"," ","t","a","b","l","e","s"," ","f","o","r"," ","s","t","r","u",
       "c","t","u","r","e","d"," ","d","a","t","a",")","\n",
       "4","."," ","A"," ","p","l","a","i","n"," ","l","a","n","g","u","a","g",
       "e"," ","e","x","p","l","a","n","a","t","i","o","n"," ","o","f"," ","w",
       "h","a","t"," ","t","h","e"," ","r","e","s","u","l","t","s"," ","m","e",
       "a","n","\n",
       "5","."," ","(","I","f"," ","a","p","p","l","i","c","a","b","l","e",")",
       " ","D","a","t","a"," ","q","u","a","l","i","t","y"," ","i","s","s","u",
       "e","s"," ","i","d","e","n","t","i","f","i","e","d"," ","i","n"," ","t",
       "h","e"," ","r","e","s","u","l","t","s","\n",
       "6","."," ","(","I","f"," ","a","p","p","l","i","c","a","b","l","e",")",
       " ","R","e","c","o","m","m","e","n","d","a","t","i","o","n","s"," ","b",
       "a","s","e","d"," ","o","n"," ","t","h","e"," ","d","a","t","a","\n" >>

\* Line 298: what the template puts before the question.
UserQueryLabel ==
    << "\n",
       "\n",
       "U","s","e","r"," ","Q","u","e","r","y",":"," " >>

\* Lines 298..301: what the template puts after the question.
ClosingInstruction ==
    << "\n",
       "\n",
       "R","e","s","p","o","n","d"," ","w","i","t","h"," ","t","h","e"," ","i",
       "n","f","o","r","m","a","t","i","o","n"," ","r","e","q","u","e","s","t",
       "e","d"," ","u","s","i","n","g"," ","t","h","e"," ","f","o","r","m","a",
       "t"," ","a","b","o","v","e","."," ","B","e"," ","t","h","o","r","o","u",
       "g","h"," ","b","u","t"," ","c","o","n","c","i","s","e","."," ","\n",
       "E","x","p","l","a","i","n"," ","m","e","d","i","c","a","l"," ","t","e",
       "r","m","i","n","o","l","o","g","y"," ","a","n","d"," ","S","Q","L"," ",
       "c","o","n","c","e","p","t","s"," ","i","n"," ","s","i","m","p","l","e",
       " ","t","e","r","m","s"," ","t","h","a","t"," ","n","o","n","-","t","e",
       "c","h","n","i","c","a","l"," ","u","s","e","r","s"," ","c","a","n"," ",
       "u","n","d","e","r","s","t","a","n","d",".","\n" >>

\* The template of lines 293..302 with the question as its last element.
ComposePrompt_questionLast(infos, text) ==
    <<"\n">> \o SchemaPrompt(infos) \o <<"\n","\n">> \o prompt_guidance
        \o ClosingInstruction \o UserQueryLabel \o text

\* Lines 293..302: combined_query.
ComposePrompt(infos, text) ==
    <<"\n">> \o SchemaPrompt(infos) \o <<"\n","\n">> \o prompt_guidance
        \o UserQueryLabel \o text \o ClosingInstruction

\* Lines 97..133: the snapshot get_table_schema returns for the store when
\* the row count or the sample fetch of the tables f marks fails.
BuiltSnapshot(f) ==
    [i \in DOMAIN TableNames |->
        [TableEntry(i, f[i]) EXCEPT
            !.sample_data = get_table_sample_data(i, f[i])]]

NoFaults == [i \in DOMAIN TableNames |-> "none"]

\* The snapshots sql_agent composes a prompt for: the one of the whole store,
\* and the ones in which one table has lost its row count or its sample to a
\* failure the helper swallowed.
Snapshots ==
    { BuiltSnapshot(f) :
        f \in {NoFaults} \cup
              { [NoFaults EXCEPT ![i] = k] :
                  i \in DOMAIN TableNames, k \in {"row_count", "sample_data"} } }

\* Questions as the user types them.
PromptQuestions ==
    { <<"L","i","s","t"," ","a","l","l"," ","p","u","r","c","h","a","s","e"," ","o","r","d","e","r","s"," ","f","r","o","m"," ","M","e","d","l","i","n","e"," ","I","n","d","u","s","t","r","i","e","s">>,
      <<" "," ","S","h","o","w"," "," ","r","e","v","e","n","u","e"," ","-","-"," ","x">>,
      <<"a">>,
      <<"R","e","s","p","o","n","d">>,
      <<"h","o","w"," ","m","a","n","y"," ","r","o","w","s","?">>,
      <<"t","o","t","a","l"," ","/","*"," ","c"," ","*","/"," ","s","a","l","e","s">>,
      <<"x","\n">>,
      <<"U","s","e","r"," ","Q","u","e","r","y",":"," ","y">> }

InitPrompt ==
    /\ raw \in PromptQuestions
    /\ norm = << >>
    /\ norm2 = << >>
    /\ preStage = "idle"
    /\ RwIdle
    /\ ResIdle
    /\ SchemaIdle
    /\ sqlTool = TRUE
    /\ BuildIdle
    /\ AnnIdle
    /\ ThreadIdle
    /\ snapshot \in Snapshots
    /\ question = << >>
    /\ combined_query = << >>
    /\ promptStage = "input"

\* sql_agent lines 232 and 239..302, for a snapshot that is not empty.
Compose ==
    /\ promptStage = "input"
    /\ question' = preprocess_user_query(raw)
    /\ combined_query' = ComposePrompt(snapshot, question')
    /\ promptStage' = "composed"
    /\ UNCHANGED <<snapshot, preVars, rwVars, resVars, schemaVars, sqlTool,
                   buildVars, annVars, threadVars>>

NextPrompt == Compose

SpecPrompt == InitPrompt /\ [][NextPrompt]_vars

EndsWith(s, t) ==
    /\ Len(t) <= Len(s)
    /\ SubSeq(s, Len(s) - Len(t) + 1, Len(s)) = t

\* The least position of s where t occurs, 0 if there is none.
IndexOf(s, t) ==
    LET hits == UNION { { i \in 1..(Len(s) - Len(p) + 1) : MatchAt(s, i, p) } : p \in {t} }
    IN  IF hits = {} THEN 0 ELSE CHOOSE i \in hits : \A j \in hits : i <= j

TableHeader(info) == <<"#","#"," ","T","a","b","l","e",":"," ">> \o info.name \o <<" ","(">>
RulesHeader == <<"#"," ","Q","u","e","r","y"," ","R","e","q","u","i","r","e","m","e","n","t","s",":">>
FormatHeader == <<"#"," ","R","e","s","p","o","n","s","e"," ","F","o","r","m","a","t",":">>

\* C14 as stated: the composed prompt ends with the normalized question.
C14_QuestionIsTail ==
    promptStage = "composed" => EndsWith(combined_query, question)

\* C14: the prompt holds, in this order, one section per table in the
\* snapshot's insertion order, the rules block, and the normalized question
\* after "User Query: "; the question is followed by the closing instruction
\* of the template and by nothing else.
C14_QuestionThenClosing ==
    promptStage = "composed" =>
        LET tail == UserQueryLabel \o question \o ClosingInstruction
            at == Len(combined_query) - Len(tail) + 1
        IN  /\ EndsWith(combined_query, tail)
            /\ \E rules \in {IndexOf(combined_query, RulesHeader)} :
                  /\ rules < IndexOf(combined_query, FormatHeader)
                  /\ IndexOf(combined_query, FormatHeader) < at
                  /\ \A i \in DOMAIN snapshot :
                        \E header \in {IndexOf(combined_query, TableHeader(snapshot[i]))} :
                           /\ 0 < header
                           /\ header < rules
                           /\ i < Len(snapshot) =>
                                 header < IndexOf(combined_query, TableHeader(snapshot[i + 1]))

\* C14's case: the prompt for the question about Medline Industries over the
\* snapshot of the whole store, purchase_orders among its tables.
C14_Witness ==
    /\ promptStage = "composed"
    /\ question = <<"L","i","s","t"," ","a","l","l"," ","p","u","r","c","h","a","s","e"," ","o","r","d","e","r","s"," ","f","r","o","m"," ","M","e","d","l","i","n","e"," ","I","n","d","u","s","t","r","i","e","s">>
    /\ Len(snapshot) = 9
    /\ Contains(combined_query, <<"-"," ","v","e","n","d","o","r",":"," ","V","A","R","C","H","A","R","(","1","0","0",")"," ","N","U","L","L","\n">>)

====
